---- MODULE Spec2Model ----
(***************************************************************************)
(* Symbolic SCC / attractor / reachability algorithms over the             *)
(* asynchronous state-transition graph of a parametrised Boolean network.  *)
(*                                                                         *)
(* A state of the network is a bit vector, written as the integer whose    *)
(* bit v is the value of variable v.  A coloured vertex is a pair          *)
(* <<state, colour>>; a symbolic set (GraphColoredVertices) is modelled    *)
(* extensionally as a set of such pairs.  A v-transition flips bit v and   *)
(* keeps the colour.                                                       *)
(***************************************************************************)
EXTENDS Integers, Sequences, FiniteSets, TLC

(***************************************************************************)
(* Shape of the networks explored.                                         *)
(***************************************************************************)
Vars == {0, 1}
Colors == {1, 2}
States == {0, 1, 2, 3}
MaxEdges == 6
MaxSmallEdges == 3

AllVertices == States \X Colors
AllEdges == {<<s, c, v>> : s \in States, c \in Colors, v \in Vars}

Pow2(v) == IF v = 0 THEN 1 ELSE 2
Bit(s, v) == (s \div Pow2(v)) % 2
Flip(s, v) == IF Bit(s, v) = 0 THEN s + Pow2(v) ELSE s - Pow2(v)

MaxOf(S) == CHOOSE x \in S : \A y \in S : y <= x
MinOf(S) == CHOOSE x \in S : \A y \in S : x <= y

(***************************************************************************)
(* The symbolic library: sets of coloured vertices.                        *)
(***************************************************************************)
ColorsOf(S) == {x[2] : x \in S}
IntersectColors(S, C) == {x \in S : x[2] \in C}
MinusColors(S, C) == {x \in S : x[2] \notin C}
Slice(S, c) == {x[1] : x \in {y \in S : y[2] = c}}

\* pick_vertex: one vertex for every colour present in the set.  The choice
\* is a deterministic function of the set; `mask` is the polarity the
\* decision diagram prefers for each state bit.
PickKey(s, mask) == (IF Bit(s, 0) = Bit(mask, 0) THEN 0 ELSE 1)
                    + (IF Bit(s, 1) = Bit(mask, 1) THEN 0 ELSE 2)
PickVertex(S, mask) ==
    {x \in S : \A y \in S : y[2] = x[2] => PickKey(x[1], mask) <= PickKey(y[1], mask)}

\* symbolic_size: number of nodes of the reduced ordered decision diagram of
\* the set, variables ordered colour, bit 1, bit 0; terminals are counted.
ColorBit(c) == c - 1
Cof1(S, cb) == {x[1] : x \in {y \in S : ColorBit(y[2]) = cb}}
Cof2(T, b1) == {Bit(s, 0) : s \in {t \in T : Bit(t, 1) = b1}}
NodesL3(S) == {Cof2(Cof1(S, cb), b1) : cb \in {0, 1}, b1 \in {0, 1}} \ {{}, {0, 1}}
NodesL2(S) == {T \in {Cof1(S, cb) : cb \in {0, 1}} : Cof2(T, 0) # Cof2(T, 1)}
NodesL1(S) == IF Cof1(S, 0) # Cof1(S, 1) THEN 1 ELSE 0
SymbolicSize(S) ==
    NodesL1(S) + Cardinality(NodesL2(S)) + Cardinality(NodesL3(S))
    + (IF S = {} THEN 1 ELSE 2)

(***************************************************************************)
(* The symbolic library: graphs.  `unit` is the vertex space, `en` the set *)
(* of enabled transitions <<s, c, v>> (from <<s, c>>, flipping v).         *)
(***************************************************************************)
MkGraph(E) == [unit |-> AllVertices, en |-> E]
Restrict(g, S) ==
    [unit |-> g.unit \cap S,
     en   |-> {e \in g.en : <<e[1], e[2]>> \in S /\ <<Flip(e[1], e[3]), e[2]>> \in S}]
MkUnit(g) == g.unit
GraphVariables == Vars

Succ(x, v) == <<Flip(x[1], v), x[2]>>
Fires(g, x, v) == <<x[1], x[2], v>> \in g.en

VarPost(g, v, S) == {Succ(x, v) : x \in {y \in S : Fires(g, y, v)}}
VarPre(g, v, S) == {Succ(x, v) : x \in {y \in S : Fires(g, Succ(y, v), v)}}
VarPostOut(g, v, S) == VarPost(g, v, S) \ S
VarPreOut(g, v, S) == VarPre(g, v, S) \ S
VarCanPost(g, v, S) == {x \in S : Fires(g, x, v)}
VarCanPostOut(g, v, S) == {x \in S : Fires(g, x, v) /\ Succ(x, v) \notin S}
VarCanPostWithin(g, v, S) == {x \in S : Fires(g, x, v) /\ Succ(x, v) \in S}
VarCanPreOut(g, v, S) == {x \in S : Fires(g, Succ(x, v), v) /\ Succ(x, v) \notin S}
VarCanPreWithin(g, v, S) == {x \in S : Fires(g, Succ(x, v), v) /\ Succ(x, v) \in S}

(***************************************************************************)
(* Reference semantics (graph theory, independent of the algorithms).      *)
(***************************************************************************)
PostAll(g, A, S) == UNION {VarPost(g, v, S) : v \in A}
PreAll(g, A, S) == UNION {VarPre(g, v, S) : v \in A}

RECURSIVE FwdClosure(_, _, _)
FwdClosure(g, A, S) ==
    LET n == S \cup PostAll(g, A, S) IN IF n = S THEN S ELSE FwdClosure(g, A, n)

RECURSIVE BwdClosure(_, _, _)
BwdClosure(g, A, S) ==
    LET n == S \cup PreAll(g, A, S) IN IF n = S THEN S ELSE BwdClosure(g, A, n)

\* The SCC of vertex x in graph g: states of the same colour that reach x and
\* are reached from x.
SccOf(g, x) == FwdClosure(g, Vars, {x}) \cap BwdClosure(g, Vars, {x})
AllSccs(g) == {SccOf(g, x) : x \in g.unit}
NonTrivialSccs(g) == {C \in AllSccs(g) : Cardinality(C) >= 2}
IsBottom(g, C) == PostAll(g, Vars, C) \subseteq C
Attractors(g) == {C \in AllSccs(g) : IsBottom(g, C)}

\* A v-transition of x leaves C.
Leaves(g, x, v, C) == Fires(g, x, v) /\ Succ(x, v) \notin C
\* No single variable's update takes every state of C outside C.
IsLongLived(g, C) == \A v \in Vars : \E x \in C : ~Leaves(g, x, v, C)
LongLivedSccs(g) == {C \in NonTrivialSccs(g) : IsLongLived(g, C)}

\* Greatest subset of I closed under the A-transitions (forward) or under
\* their inverses (backward).
GreatestForwardClosed(g, A, I) == UNION {T \in SUBSET I : PostAll(g, A, T) \subseteq T}
GreatestBackwardClosed(g, A, I) == UNION {T \in SUBSET I : PreAll(g, A, T) \subseteq T}

\* Colour-slices of a collection of emitted symbolic sets.
SlicesOf(items) ==
    {IntersectColors(items[i], {c}) : i \in DOMAIN items, c \in Colors} \ {{}}

(***************************************************************************)
(* Completable results.                                                    *)
(***************************************************************************)
Ready(S) == [tag |-> "Ready", set |-> S, reason |-> ""]
Working == [tag |-> "Working", set |-> {}, reason |-> ""]
CancelledBy(r) == [tag |-> "Cancelled", set |-> {}, reason |-> r]
Exhausted == [tag |-> "None", set |-> {}, reason |-> ""]
NotCalled == [tag |-> "NotCalled", set |-> {}, reason |-> ""]

(***************************************************************************)
(* Reachability configuration and step operators.                          *)
(***************************************************************************)
Unlimited == 1000000
ReachabilityConfig(g) ==
    [graph |-> g, variables |-> GraphVariables,
     max_iterations |-> Unlimited, max_symbolic_size |-> Unlimited]
restrict_state_space(ctx, S) == [ctx EXCEPT !.graph = Restrict(ctx.graph, S)]
restrict_variables(ctx, A) == [ctx EXCEPT !.variables = A]

\* Result of a step operator: either interrupted by the ambient cancellation
\* flag, or a set.
OpSet(S) == [cancelled |-> FALSE, set |-> S]
OpCancelled == [cancelled |-> TRUE, set |-> {}]

TopVar == MaxOf(Vars)

\* `for var in context.variables.iter().rev()`, accumulating a union.  The
\* first definition is a deliberately wrong variant (the loop stops one variable
\* early), used to probe the sensitivity of C14.
RECURSIVE BfsFold_SkipsLowest(_, _, _, _, _)
BfsFold_SkipsLowest(ctx, S, v, acc, pre) ==
    IF v < 1 THEN acc
    ELSE IF v \notin ctx.variables THEN BfsFold_SkipsLowest(ctx, S, v - 1, acc, pre)
    ELSE LET step == IF pre THEN VarPreOut(ctx.graph, v, S)
                     ELSE VarPostOut(ctx.graph, v, S)
         IN BfsFold_SkipsLowest(ctx, S, v - 1, acc \cup step, pre)
RECURSIVE BfsFold(_, _, _, _, _)
BfsFold(ctx, S, v, acc, pre) ==
    IF v < 0 THEN acc
    ELSE IF v \notin ctx.variables THEN BfsFold(ctx, S, v - 1, acc, pre)
    ELSE LET step == IF pre THEN VarPreOut(ctx.graph, v, S)
                     ELSE VarPostOut(ctx.graph, v, S)
         IN BfsFold(ctx, S, v - 1, acc \cup step, pre)

\* `for var in context.variables.iter().rev()`, returning at the first
\* non-empty result.  `kind` selects the library call.
SatCall(kind, g, v, S) ==
    CASE kind = "post_out" -> VarPostOut(g, v, S)
      [] kind = "pre_out" -> VarPreOut(g, v, S)
      [] kind = "can_post_out" -> VarCanPostOut(g, v, S)
      [] kind = "can_pre_out" -> VarCanPreOut(g, v, S)

\* The first definition is a deliberately wrong variant (only the greatest
\* active variable is tried), used to probe the sensitivity of C15.
SatFirst_GreatestOnly(kind, ctx, S, v) ==
    IF ctx.variables = {} THEN {}
    ELSE SatCall(kind, ctx.graph, MaxOf(ctx.variables), S)
RECURSIVE SatFirst(_, _, _, _)
SatFirst(kind, ctx, S, v) ==
    IF v < 0 THEN {}
    ELSE IF v \notin ctx.variables THEN SatFirst(kind, ctx, S, v - 1)
    ELSE LET step == SatCall(kind, ctx.graph, v, S)
         IN IF step # {} THEN step ELSE SatFirst(kind, ctx, S, v - 1)

\* The cancellation flag is tested at the top of every loop iteration, so a
\* loop over no variables never observes it.
\* The first definition is a deliberately wrong variant (the flag is ignored),
\* used to probe the sensitivity of C35.
Interrupted_Never(ctx, cancel) == FALSE
Interrupted(ctx, cancel) == cancel /\ ctx.variables # {}

BfsSuccessors(ctx, S, cancel) ==
    IF Interrupted(ctx, cancel) THEN OpCancelled
    ELSE OpSet(BfsFold(ctx, S, TopVar, {}, FALSE))
BfsPredecessors(ctx, S, cancel) ==
    IF Interrupted(ctx, cancel) THEN OpCancelled
    ELSE OpSet(BfsFold(ctx, S, TopVar, {}, TRUE))
\* The first definition is a deliberately wrong variant (the variables are
\* tried in ascending order), used to probe the sensitivity of C37.
RECURSIVE SatFirstAscending(_, _, _, _)
SatFirstAscending(kind, ctx, S, v) ==
    IF v > TopVar THEN {}
    ELSE IF v \notin ctx.variables THEN SatFirstAscending(kind, ctx, S, v + 1)
    ELSE LET step == SatCall(kind, ctx.graph, v, S)
         IN IF step # {} THEN step ELSE SatFirstAscending(kind, ctx, S, v + 1)
SaturationSuccessors_Ascending(ctx, S, cancel) ==
    IF Interrupted(ctx, cancel) THEN OpCancelled
    ELSE OpSet(SatFirstAscending("post_out", ctx, S, 0))
SaturationSuccessors(ctx, S, cancel) ==
    IF Interrupted(ctx, cancel) THEN OpCancelled
    ELSE OpSet(SatFirst("post_out", ctx, S, TopVar))
SaturationPredecessors(ctx, S, cancel) ==
    IF Interrupted(ctx, cancel) THEN OpCancelled
    ELSE OpSet(SatFirst("pre_out", ctx, S, TopVar))
HasSuccessorSaturation(ctx, S, cancel) ==
    IF Interrupted(ctx, cancel) THEN OpCancelled
    ELSE OpSet(SatFirst("can_post_out", ctx, S, TopVar))
HasPredecessorSaturation(ctx, S, cancel) ==
    IF Interrupted(ctx, cancel) THEN OpCancelled
    ELSE OpSet(SatFirst("can_pre_out", ctx, S, TopVar))

\* Trimming operators: computed by inversion.
\* The first definition is a deliberately wrong variant (each variable's
\* result replaces the accumulated set instead of joining it), used to probe
\* the sensitivity of C31.
RECURSIVE WithinFold_LastOnly(_, _, _, _, _)
WithinFold_LastOnly(ctx, S, v, acc, pre) ==
    IF v < 0 THEN acc
    ELSE IF v \notin ctx.variables THEN WithinFold_LastOnly(ctx, S, v - 1, acc, pre)
    ELSE LET w == IF pre THEN VarCanPreWithin(ctx.graph, v, S)
                  ELSE VarCanPostWithin(ctx.graph, v, S)
         IN WithinFold_LastOnly(ctx, S, v - 1, w, pre)
RECURSIVE WithinFold(_, _, _, _, _)
WithinFold(ctx, S, v, acc, pre) ==
    IF v < 0 THEN acc
    ELSE IF v \notin ctx.variables THEN WithinFold(ctx, S, v - 1, acc, pre)
    ELSE LET w == IF pre THEN VarCanPreWithin(ctx.graph, v, S)
                  ELSE VarCanPostWithin(ctx.graph, v, S)
         IN WithinFold(ctx, S, v - 1, IF w \subseteq acc THEN acc ELSE acc \cup w, pre)

RelativeSinks(ctx, S, cancel) ==
    IF Interrupted(ctx, cancel) THEN OpCancelled
    ELSE OpSet(S \ WithinFold(ctx, S, TopVar, {}, FALSE))
RelativeSources(ctx, S, cancel) ==
    IF Interrupted(ctx, cancel) THEN OpCancelled
    ELSE OpSet(S \ WithinFold(ctx, S, TopVar, {}, TRUE))
\* The first definition is a deliberately wrong variant (sinks are tried
\* first), used to probe the sensitivity of C32.
RelativeSinksAndSources_SinksFirst(ctx, S, cancel) ==
    LET sinks == RelativeSinks(ctx, S, cancel)
    IN IF sinks.cancelled THEN sinks
       ELSE IF sinks.set # {} THEN sinks
       ELSE RelativeSources(ctx, S, cancel)
RelativeSinksAndSources(ctx, S, cancel) ==
    LET sources == RelativeSources(ctx, S, cancel)
    IN IF sources.cancelled THEN sources
       ELSE IF sources.set # {} THEN sources
       ELSE RelativeSinks(ctx, S, cancel)

StepOperator(op, ctx, S, cancel) ==
    CASE op = "BfsSuccessors" -> BfsSuccessors(ctx, S, cancel)
      [] op = "BfsPredecessors" -> BfsPredecessors(ctx, S, cancel)
      [] op = "SaturationSuccessors" -> SaturationSuccessors(ctx, S, cancel)
      [] op = "SaturationPredecessors" -> SaturationPredecessors(ctx, S, cancel)
      [] op = "HasSuccessorSaturation" -> HasSuccessorSaturation(ctx, S, cancel)
      [] op = "HasPredecessorSaturation" -> HasPredecessorSaturation(ctx, S, cancel)
      [] op = "RelativeSinks" -> RelativeSinks(ctx, S, cancel)
      [] op = "RelativeSources" -> RelativeSources(ctx, S, cancel)
      [] op = "RelativeSinksAndSources" -> RelativeSinksAndSources(ctx, S, cancel)

(***************************************************************************)
(* ReachabilityState and the two iteration skeletons.  A skeleton step     *)
(* returns the Completable result together with the mutated state.         *)
(***************************************************************************)
ReachabilityState(S) == [iteration |-> 0, set |-> S]

\* The iteration budget test at the head of a skeleton step.  The first
\* definition is a deliberately wrong variant (one iteration too many), used to
\* probe the sensitivity of C11.
IterationBudgetSpent_Strict(ctx, state) == state.iteration > ctx.max_iterations
IterationBudgetSpent(ctx, state) == state.iteration >= ctx.max_iterations

\* The size budget test after the set has changed.  The first definition is a
\* deliberately wrong variant (a set of exactly the permitted size is
\* rejected), used to probe the sensitivity of C12.
SizeBudgetExceeded_OrEqual(ctx, set) == SymbolicSize(set) >= ctx.max_symbolic_size
SizeBudgetExceeded(ctx, set) == SymbolicSize(set) > ctx.max_symbolic_size

\* state.iteration += 1.  The first definition is a deliberately wrong variant
\* (the counter is never incremented), used to probe the sensitivity of C36.
NextIteration_Forgotten(state) == state
NextIteration(state) == [state EXCEPT !.iteration = @ + 1]

\* The part of IterativeUnion::step after the step operator returned to_union.
UnionInto(ctx, st1, to_union) ==
    IF to_union.cancelled
    THEN [res |-> CancelledBy("cancelled"), state |-> st1]
    ELSE IF to_union.set = {}
    THEN [res |-> Ready(st1.set), state |-> st1]
    ELSE IF SizeBudgetExceeded(ctx, st1.set \cup to_union.set)
    THEN [res |-> CancelledBy("ReachabilityConfig::max_symbolic_size"),
          state |-> [st1 EXCEPT !.set = @ \cup to_union.set]]
    ELSE [res |-> Working, state |-> [st1 EXCEPT !.set = @ \cup to_union.set]]

\* The same with completion after the first union.
UnionOnce(st1, to_union) ==
    IF to_union.cancelled
    THEN [res |-> CancelledBy("cancelled"), state |-> st1]
    ELSE [res |-> Ready(st1.set \cup to_union.set),
          state |-> [st1 EXCEPT !.set = @ \cup to_union.set]]

\* The first definition is a deliberately wrong variant of IterativeUnion
\* (it completes after the first union instead of at the fixed point), used to
\* probe the sensitivity of C5.
IterativeUnion_SingleRound(op, ctx, state, cancel) ==
    IF IterationBudgetSpent(ctx, state)
    THEN [res |-> CancelledBy("ReachabilityConfig::max_iterations"), state |-> state]
    ELSE UnionOnce(NextIteration(state),
                   StepOperator(op, ctx, state.set, cancel))
IterativeUnion(op, ctx, state, cancel) ==
    IF IterationBudgetSpent(ctx, state)
    THEN [res |-> CancelledBy("ReachabilityConfig::max_iterations"), state |-> state]
    ELSE UnionInto(ctx, NextIteration(state),
                   StepOperator(op, ctx, state.set, cancel))

\* The part of IterativeSubtraction::step after the step operator returned
\* to_remove.
SubtractFrom(ctx, st1, to_remove) ==
    IF to_remove.cancelled
    THEN [res |-> CancelledBy("cancelled"), state |-> st1]
    ELSE IF to_remove.set = {}
    THEN [res |-> Ready(st1.set), state |-> st1]
    ELSE IF SizeBudgetExceeded(ctx, st1.set \ to_remove.set)
    THEN [res |-> CancelledBy("ReachabilityConfig::max_symbolic_size"),
          state |-> [st1 EXCEPT !.set = @ \ to_remove.set]]
    ELSE [res |-> Working, state |-> [st1 EXCEPT !.set = @ \ to_remove.set]]

IterativeSubtraction(op, ctx, state, cancel) ==
    IF IterationBudgetSpent(ctx, state)
    THEN [res |-> CancelledBy("ReachabilityConfig::max_iterations"), state |-> state]
    ELSE SubtractFrom(ctx, NextIteration(state),
                      StepOperator(op, ctx, state.set, cancel))

(***************************************************************************)
(* Computation: context, optional state, cached output.                    *)
(* `skeleton` and `op` stand for the STEP type parameter.                  *)
(***************************************************************************)
NoState == [iteration |-> 0, set |-> {}]

Configure(skeleton, op, ctx, S) ==
    [skeleton |-> skeleton, op |-> op, context |-> ctx,
     hasState |-> TRUE, state |-> ReachabilityState(S),
     hasOutput |-> FALSE, output |-> {}, steps |-> 0]

\* ComputableIdentity: completes at once with its initial value.
StepDispatch(c, cancel) ==
    CASE c.skeleton = "IterativeUnion" ->
            IterativeUnion(c.op, c.context, c.state, cancel)
      [] c.skeleton = "IterativeSubtraction" ->
            IterativeSubtraction(c.op, c.context, c.state, cancel)
      [] c.skeleton = "Identity" ->
            [res |-> Ready(c.state.set), state |-> c.state]

\* The part of try_compute after the step returned r: an incomplete result
\* is passed on, a complete one takes the state and caches the output.
\* `steps` counts the invocations of the step operator (an observer, not
\* program state).
AfterStep(c, r) ==
    IF r.res.tag # "Ready"
    THEN [res |-> r.res, comp |-> [c EXCEPT !.state = r.state, !.steps = @ + 1]]
    ELSE [res |-> Ready(r.state.set),
          comp |-> [c EXCEPT !.hasState = FALSE, !.state = NoState,
                             !.hasOutput = TRUE, !.output = r.state.set,
                             !.steps = @ + 1]]

\* The same without taking the state.
AfterStepKeepingState(c, r) ==
    IF r.res.tag # "Ready"
    THEN [res |-> r.res, comp |-> [c EXCEPT !.state = r.state, !.steps = @ + 1]]
    ELSE [res |-> Ready(r.state.set),
          comp |-> [c EXCEPT !.state = r.state, !.hasOutput = TRUE,
                             !.output = r.state.set, !.steps = @ + 1]]

\* try_compute returns the result and the mutated computation.  The first
\* definition is a deliberately wrong variant (the state is not taken and the
\* step runs on every call), used to probe the sensitivity of C9.
try_compute_Uncached(c, cancel) == AfterStepKeepingState(c, StepDispatch(c, cancel))
try_compute(c, cancel) ==
    IF c.hasState
    THEN AfterStep(c, StepDispatch(c, cancel))
    ELSE [res |-> Ready(c.output), comp |-> c]

\* Computation::compute without an ambient cancellation: try_compute is
\* repeated until it returns Ready or Cancelled.
RECURSIVE compute(_)
AfterTryCompute(r) == IF r.res.tag = "Working" THEN compute(r.comp) ELSE r.res
compute(c) == AfterTryCompute(try_compute(c, FALSE))

ForwardReachability(ctx, S) == Configure("IterativeUnion", "SaturationSuccessors", ctx, S)
BackwardReachability(ctx, S) == Configure("IterativeUnion", "SaturationPredecessors", ctx, S)
ForwardReachabilityBfs(ctx, S) == Configure("IterativeUnion", "BfsSuccessors", ctx, S)
BackwardReachabilityBfs(ctx, S) == Configure("IterativeUnion", "BfsPredecessors", ctx, S)
\* The first definition is a deliberately wrong variant of ForwardTrap (built
\* on the predecessor operator), used to probe the sensitivity of C6.
ForwardTrap_OnPredecessors(ctx, S) ==
    Configure("IterativeSubtraction", "HasPredecessorSaturation", ctx, S)
ForwardTrap(ctx, S) == Configure("IterativeSubtraction", "HasSuccessorSaturation", ctx, S)
\* The first definition is a deliberately wrong variant of BackwardTrap (built
\* on the successor operator), used to probe the sensitivity of C38.
BackwardTrap_OnSuccessors(ctx, S) ==
    Configure("IterativeSubtraction", "HasSuccessorSaturation", ctx, S)
BackwardTrap(ctx, S) == Configure("IterativeSubtraction", "HasPredecessorSaturation", ctx, S)
TrimSinks(ctx, S) == Configure("IterativeSubtraction", "RelativeSinks", ctx, S)
TrimSources(ctx, S) == Configure("IterativeSubtraction", "RelativeSources", ctx, S)
TrimSinksAndSources(ctx, S) ==
    Configure("IterativeSubtraction", "RelativeSinksAndSources", ctx, S)
ComputableIdentity(ctx, S) == Configure("Identity", "none", ctx, S)

build_computation(trim, g, S) ==
    CASE trim = "Both" -> TrimSinksAndSources(ReachabilityConfig(g), S)
      [] trim = "Sources" -> TrimSources(ReachabilityConfig(g), S)
      [] trim = "Sinks" -> TrimSinks(ReachabilityConfig(g), S)
      [] trim = "None" -> ComputableIdentity(ReachabilityConfig(g), S)

NoComp == ComputableIdentity(ReachabilityConfig(MkGraph({})), {})

(***************************************************************************)
(* Program state.                                                          *)
(***************************************************************************)
VARIABLES
    graph,      \* the SymbolicAsyncGraph under analysis
    pickMask,   \* polarity preference of pick_vertex
    cancel,     \* the ambient cancellation flag
    sccConfig,  \* [should_trim, filter_long_lived] of SccConfig
    driver,     \* position of the driving program
    fb, fbRes, fbItems, fbColl,   \* FwdBwdScc generator, result of its last try_next,
                                  \* the collector, result of the collector's last step
    ch, chRes, chItems, chColl,   \* ChainScc generator, likewise
    xb, xbRes, xbItems,     \* XieBeerelAttractors on the unreduced graph
    itgr, itgrRes,          \* InterleavedTransitionGuidedReduction
    xr, xrRes, xrItems,     \* XieBeerelAttractors on the ITGR result
    comp, compRes, compInit, compCalls,  \* a stand-alone Computation, its last result,
                                         \* its input, try_compute calls after completion
    candidate, filtered,    \* input and result of retain_long_lived
    calls,      \* try_next / try_compute calls made by a counting driver
    polls,      \* try_next calls made after the generator signalled exhaustion
    restored,   \* the object has been serialised and deserialised
    cli         \* the command-line front-end: requested count, items printed,
                \* error line, summary line, exit status

envVars == <<graph, pickMask, sccConfig>>
fbVars == <<fb, fbRes, fbItems, fbColl>>
chVars == <<ch, chRes, chItems, chColl>>
xbVars == <<xb, xbRes, xbItems>>
itgrVars == <<itgr, itgrRes>>
xrVars == <<xr, xrRes, xrItems>>
compVars == <<comp, compRes, compInit, compCalls>>
filterVars == <<candidate, filtered>>
auxVars == <<calls, polls, restored, cli>>

vars == <<envVars, cancel, driver, fbVars, chVars, xbVars, itgrVars, xrVars,
          compVars, filterVars, auxVars>>

pick_vertex(S) == PickVertex(S, pickMask)

Item(S) == [tag |-> "Item", set |-> S, reason |-> ""]

(***************************************************************************)
(* SCC filtering (scc/mod.rs, scc/scc_config.rs).                          *)
(***************************************************************************)
SccConfig(g, trim, long) == [graph |-> g, should_trim |-> trim, filter_long_lived |-> long]

\* safe_colors = safe_colors.intersect(&stays_inside.colors()).  The first
\* definition is a deliberately wrong variant (union instead of intersection),
\* used to probe the sensitivity of C7.
SafeColorsUpdate_Union(safe, stays_inside) == safe \cup ColorsOf(stays_inside)
SafeColorsUpdate(safe, stays_inside) == safe \cap ColorsOf(stays_inside)

\* Multi-colour branch: fold of `safe_colors` over graph.variables().
RECURSIVE SafeColors(_, _, _, _)
SafeColors(g, set, v, safe) ==
    IF v > TopVar THEN safe
    ELSE LET can_post_out == VarCanPostOut(g, v, set)
             stays_inside == set \ can_post_out
             safe2 == SafeColorsUpdate(safe, stays_inside)
         IN IF safe2 = {} THEN {} ELSE SafeColors(g, set, v + 1, safe2)

retain_long_lived(g, set) ==
    LET colors == ColorsOf(set)
    IN IF Cardinality(colors) = 1
       THEN IF \E v \in GraphVariables : VarCanPostOut(g, v, set) = set
            THEN {} ELSE set
       ELSE IntersectColors(set, SafeColors(g, set, 0, colors))

\* apply_long_lived_filter returns an Option; the empty set stands for None
\* (Some is never empty).
apply_long_lived_filter(context, set) ==
    IF context.filter_long_lived THEN retain_long_lived(context.graph, set) ELSE set

\* filter_scc returns an Option; the empty set stands for None.  The first
\* definition is a deliberately wrong variant (the long-lived filter is
\* skipped), used to probe the sensitivity of C8.
filter_scc_TrivialOnly(context, scc) ==
    IntersectColors(scc, ColorsOf(scc \ pick_vertex(scc)))
filter_scc(context, scc) ==
    LET valid_colors == ColorsOf(scc \ pick_vertex(scc))
        non_trivial_scc == IntersectColors(scc, valid_colors)
    IN IF non_trivial_scc = {} THEN {}
       ELSE IF context.filter_long_lived
            THEN retain_long_lived(context.graph, non_trivial_scc)
            ELSE non_trivial_scc

Push(stack, S) == IF S # {} THEN Append(stack, S) ELSE stack
Pop(stack) == SubSeq(stack, 1, Len(stack) - 1)
Last(stack) == stack[Len(stack)]

(***************************************************************************)
(* Forward-backward SCC generator (scc/fwd_bwd.rs).                        *)
(***************************************************************************)
FbIdle == [phase |-> "Idle", pivot |-> {}, universe |-> {}, backward |-> {}, comp |-> NoComp]

\* The first definition is a deliberately wrong variant (the initial set is
\* ignored and the whole state space is queued), used to probe the sensitivity
\* of C16.
FwdBwdState_WholeSpace(S) == [computing |-> FbIdle, to_process |-> <<AllVertices>>]
FwdBwdState(S) == [computing |-> FbIdle, to_process |-> <<S>>]

\* The part of the universe outside both reachability sets.  The first
\* definition is a deliberately wrong variant (the forward set is kept), used
\* to probe the sensitivity of C1.
RemainingRest_KeepForward(universe, backward, forward) == universe \ backward
RemainingRest(universe, backward, forward) == (universe \ backward) \ forward

\* An incomplete result of the inner computation is passed on.
FbPending(state, r) ==
    [res |-> r.res, state |-> [state EXCEPT !.computing.comp = r.comp]]

\* Idle: the popped set after the long-lived filter.
FbStartTrimming(context, popped, todo) ==
    IF todo = {}
    THEN [res |-> Working, state |-> popped]
    ELSE [res |-> Working,
          state |-> [popped EXCEPT !.computing =
              [FbIdle EXCEPT !.phase = "Trimming",
                  !.comp = build_computation(context.should_trim,
                                             context.graph, todo)]]]

\* Trimming finished with `universe` (after the long-lived filter).  The
\* first definition is a deliberately wrong variant (the backward search is
\* not confined to the universe), used to probe the sensitivity of C24.
FbStartBackward_WholeGraph(context, state, universe, pivot) ==
    IF universe = {}
    THEN [res |-> Working, state |-> [state EXCEPT !.computing = FbIdle]]
    ELSE [res |-> Working,
          state |-> [state EXCEPT !.computing =
              [FbIdle EXCEPT !.phase = "Backward", !.pivot = pivot,
                  !.universe = universe,
                  !.comp = BackwardReachability(
                      ReachabilityConfig(context.graph), pivot)]]]
FbStartBackward(context, state, universe, pivot) ==
    IF universe = {}
    THEN [res |-> Working, state |-> [state EXCEPT !.computing = FbIdle]]
    ELSE [res |-> Working,
          state |-> [state EXCEPT !.computing =
              [FbIdle EXCEPT !.phase = "Backward", !.pivot = pivot,
                  !.universe = universe,
                  !.comp = BackwardReachability(
                      ReachabilityConfig(Restrict(context.graph, universe)), pivot)]]]

FbTrimmed(context, state, r) ==
    IF r.res.tag # "Ready"
    THEN FbPending(state, r)
    ELSE IF r.res.set = {}
    THEN [res |-> Working, state |-> [state EXCEPT !.computing = FbIdle]]
    ELSE FbStartBackward(context, state,
                         apply_long_lived_filter(context, r.res.set),
                         pick_vertex(apply_long_lived_filter(context, r.res.set)))

FbBackwardDone(context, state, cmp, r) ==
    IF r.res.tag # "Ready"
    THEN FbPending(state, r)
    ELSE [res |-> Working,
          state |-> [state EXCEPT !.computing =
              [FbIdle EXCEPT !.phase = "Forward", !.universe = cmp.universe,
                  !.backward = r.res.set,
                  !.comp = ForwardReachability(
                      ReachabilityConfig(Restrict(context.graph, cmp.universe)),
                      cmp.pivot)]]]

\* The step's result once the component is filtered: an item, or Working when
\* the filter left nothing.  The first definition is a deliberately wrong
\* variant (an empty component is emitted as an item), used to probe the
\* sensitivity of C30.
FbEmit_EmitsEmpty(state, scc, stack) ==
    [res |-> Item(scc),
     state |-> [computing |-> FbIdle, to_process |-> stack]]
FbEmit(state, scc, stack) ==
    [res |-> IF scc # {} THEN Item(scc) ELSE Working,
     state |-> [computing |-> FbIdle, to_process |-> stack]]

\* The forward set is known: the component is emitted and the three pieces
\* are pushed.  The first definition is a deliberately wrong variant (the
\* whole backward set is pushed, the component with it), used to probe the
\* sensitivity of C25.
FbForwardDone_KeepsScc(context, state, cmp, r) ==
    IF r.res.tag # "Ready"
    THEN FbPending(state, r)
    ELSE FbEmit(state,
                filter_scc(context, r.res.set \cap cmp.backward),
                Push(Push(Push(state.to_process, cmp.backward),
                          r.res.set \ cmp.backward),
                     RemainingRest(cmp.universe, cmp.backward, r.res.set)))
FbForwardDone(context, state, cmp, r) ==
    IF r.res.tag # "Ready"
    THEN FbPending(state, r)
    ELSE FbEmit(state,
                filter_scc(context, r.res.set \cap cmp.backward),
                Push(Push(Push(state.to_process, cmp.backward \ r.res.set),
                          r.res.set \ cmp.backward),
                     RemainingRest(cmp.universe, cmp.backward, r.res.set)))

\* `let Some(todo) = state.to_process.pop() else { return Ok(None) }`: nothing
\* is left to process and the state stays as it is.  The first definition is a
\* deliberately wrong variant (the whole state space is queued again), used to
\* probe the sensitivity of C17.
FbExhausted_Restarts(state) ==
    [res |-> Exhausted, state |-> [state EXCEPT !.to_process = <<AllVertices>>]]
FbExhausted(state) == [res |-> Exhausted, state |-> state]

\* One step of the generator.  The first definition is a deliberately wrong
\* variant (the worklist is a queue: the oldest universe is taken first), used
\* to probe the sensitivity of C18.
FwdBwdStep_Queue(context, state, cancel_) ==
    CASE state.computing.phase = "Idle" ->
        IF state.to_process = <<>>
        THEN FbExhausted(state)
        ELSE FbStartTrimming(context, [state EXCEPT !.to_process = Tail(@)],
                             apply_long_lived_filter(context, Head(state.to_process)))
      [] state.computing.phase = "Trimming" ->
        FbTrimmed(context, state, try_compute(state.computing.comp, cancel_))
      [] state.computing.phase = "Backward" ->
        FbBackwardDone(context, state, state.computing,
                       try_compute(state.computing.comp, cancel_))
      [] state.computing.phase = "Forward" ->
        FbForwardDone(context, state, state.computing,
                      try_compute(state.computing.comp, cancel_))
FwdBwdStep(context, state, cancel_) ==
    CASE state.computing.phase = "Idle" ->
        IF state.to_process = <<>>
        THEN FbExhausted(state)
        ELSE FbStartTrimming(context, [state EXCEPT !.to_process = Pop(@)],
                             apply_long_lived_filter(context, Last(state.to_process)))
      [] state.computing.phase = "Trimming" ->
        FbTrimmed(context, state, try_compute(state.computing.comp, cancel_))
      [] state.computing.phase = "Backward" ->
        FbBackwardDone(context, state, state.computing,
                       try_compute(state.computing.comp, cancel_))
      [] state.computing.phase = "Forward" ->
        FbForwardDone(context, state, state.computing,
                      try_compute(state.computing.comp, cancel_))

(***************************************************************************)
(* Chain SCC generator (scc/chain.rs).                                     *)
(***************************************************************************)
ChIdle == [phase |-> "Idle", full_universe |-> {}, pivot_hint |-> {}, universe |-> {},
           pivot |-> {}, basin |-> {}, comp |-> NoComp]

Step0(U, hint) == [full_universe |-> U, pivot_hint |-> hint]

ChainState(g) == [computing |-> ChIdle, to_process |-> <<Step0(MkUnit(g), {})>>]

\* `for var in context.graph.variables().rev()`: first non-empty
\* call(var, of) /\ within.
HintCall(kind, g, v, S) ==
    CASE kind = "pre_out" -> VarPreOut(g, v, S)
      [] kind = "post_out" -> VarPostOut(g, v, S)
      [] kind = "post" -> VarPost(g, v, S)

RECURSIVE FirstHint(_, _, _, _, _)
FirstHint(kind, g, of, within, v) ==
    IF v < 0 THEN {}
    ELSE LET h == HintCall(kind, g, v, of) \cap within
         IN IF h # {} THEN h ELSE FirstHint(kind, g, of, within, v - 1)

\* The part of the universe outside the basin.  The first definition is a
\* deliberately wrong variant (the rest is dropped), used to probe the
\* sensitivity of C4.
ChainRemainingRest_Dropped(universe, basin) == {}
ChainRemainingRest(universe, basin) == universe \ basin

ChPending(state, r) ==
    [res |-> r.res, state |-> [state EXCEPT !.computing.comp = r.comp]]

\* Idle: the popped step after the long-lived filter.
ChStartTrimming(context, popped, todo, full_universe) ==
    IF full_universe = {}
    THEN [res |-> Working, state |-> popped]
    ELSE [res |-> Working,
          state |-> [popped EXCEPT !.computing =
              [ChIdle EXCEPT !.phase = "Trimming",
                  !.full_universe = full_universe,
                  !.pivot_hint = todo.pivot_hint,
                  !.comp = build_computation(context.should_trim,
                                             context.graph, full_universe)]]]

\* The pivot hint after trimming: the old hint if it survived, otherwise a
\* successor of the trimmed part.
TrimmedHint(context, cmp, universe) ==
    IF universe \cap cmp.pivot_hint # {}
    THEN universe \cap cmp.pivot_hint
    ELSE FirstHint("post", context.graph, cmp.full_universe \ universe,
                   universe, TopVar)

ChPivot(universe, pivot_hint) ==
    IF pivot_hint = {} THEN pick_vertex(universe) ELSE pick_vertex(pivot_hint)

ChStartBasin(context, state, universe, pivot) ==
    [res |-> Working,
     state |-> [state EXCEPT !.computing =
         [ChIdle EXCEPT !.phase = "Basin", !.universe = universe,
             !.pivot = pivot,
             !.comp = BackwardReachability(
                 ReachabilityConfig(Restrict(context.graph, universe)), pivot)]]]

ChFiltered(context, state, cmp, universe) ==
    IF universe = {}
    THEN [res |-> Working, state |-> [state EXCEPT !.computing = ChIdle]]
    ELSE ChStartBasin(context, state, universe,
                      ChPivot(universe, TrimmedHint(context, cmp, universe)))

ChTrimmed(context, state, cmp, r) ==
    IF r.res.tag # "Ready"
    THEN ChPending(state, r)
    ELSE IF r.res.set = {}
    THEN [res |-> Working, state |-> [state EXCEPT !.computing = ChIdle]]
    ELSE ChFiltered(context, state, cmp,
                    apply_long_lived_filter(context, r.res.set))

\* The basin is known: forward reachability inside it gives the component.
\* The first definition is a deliberately wrong variant (the forward search
\* runs in the whole universe), used to probe the sensitivity of C23.
ChBasinDone_InUniverse(context, state, cmp, r) ==
    IF r.res.tag # "Ready"
    THEN ChPending(state, r)
    ELSE [res |-> Working,
          state |-> [state EXCEPT !.computing =
              [ChIdle EXCEPT !.phase = "Scc", !.universe = cmp.universe,
                  !.basin = r.res.set,
                  !.comp = ForwardReachability(
                      ReachabilityConfig(Restrict(context.graph, cmp.universe)),
                      cmp.pivot)]]]
ChBasinDone(context, state, cmp, r) ==
    IF r.res.tag # "Ready"
    THEN ChPending(state, r)
    ELSE [res |-> Working,
          state |-> [state EXCEPT !.computing =
              [ChIdle EXCEPT !.phase = "Scc", !.universe = cmp.universe,
                  !.basin = r.res.set,
                  !.comp = ForwardReachability(
                      ReachabilityConfig(Restrict(context.graph, r.res.set)),
                      cmp.pivot)]]]

PushStep(stack, remaining, hint) ==
    IF remaining # {} THEN Append(stack, Step0(remaining, hint)) ELSE stack

ChEmit(state, scc, stack) ==
    [res |-> IF scc # {} THEN Item(scc) ELSE Working,
     state |-> [computing |-> ChIdle, to_process |-> stack]]

ChSplit(context, state, raw_scc, remaining_basin, remaining_rest) ==
    ChEmit(state, filter_scc(context, raw_scc),
           PushStep(PushStep(state.to_process, remaining_basin,
                             FirstHint("pre_out", context.graph, raw_scc,
                                       remaining_basin, TopVar)),
                    remaining_rest,
                    FirstHint("post_out", context.graph, raw_scc,
                              remaining_rest, TopVar)))

\* The component is known.  The first definition is a deliberately wrong
\* variant (the whole basin is pushed back, the component with it), used to
\* probe the sensitivity of C26.
ChSccDone_KeepsScc(context, state, cmp, r) ==
    IF r.res.tag # "Ready"
    THEN ChPending(state, r)
    ELSE ChSplit(context, state, r.res.set, cmp.basin,
                 ChainRemainingRest(cmp.universe, cmp.basin))
ChSccDone(context, state, cmp, r) ==
    IF r.res.tag # "Ready"
    THEN ChPending(state, r)
    ELSE ChSplit(context, state, r.res.set, cmp.basin \ r.res.set,
                 ChainRemainingRest(cmp.universe, cmp.basin))

ChainStep(context, state, cancel_) ==
    CASE state.computing.phase = "Idle" ->
        IF state.to_process = <<>>
        THEN [res |-> Exhausted, state |-> state]
        ELSE ChStartTrimming(context, [state EXCEPT !.to_process = Pop(@)],
                             Last(state.to_process),
                             apply_long_lived_filter(
                                 context, Last(state.to_process).full_universe))
      [] state.computing.phase = "Trimming" ->
        ChTrimmed(context, state, state.computing,
                  try_compute(state.computing.comp, cancel_))
      [] state.computing.phase = "Basin" ->
        ChBasinDone(context, state, state.computing,
                    try_compute(state.computing.comp, cancel_))
      [] state.computing.phase = "Scc" ->
        ChSccDone(context, state, state.computing,
                  try_compute(state.computing.comp, cancel_))

(***************************************************************************)
(* Xie-Beerel attractor generator (attractor/xie_beerel.rs).               *)
(***************************************************************************)
AttractorConfig(g) == [graph |-> g, active_variables |-> GraphVariables]

\* impl From<&AttractorConfig> for ReachabilityConfig
ReachabilityConfigFrom(actx) ==
    [graph |-> actx.graph, variables |-> actx.active_variables,
     max_iterations |-> Unlimited, max_symbolic_size |-> Unlimited]

XbIdle == [phase |-> "Idle", pivot |-> {}, basin |-> {}, attractor |-> {},
           attractor_config |-> ReachabilityConfig(MkGraph({})), comp |-> NoComp]

XieBeerelState(S) == [computing |-> XbIdle, remaining |-> S]

\* Colours dropped from the attractor candidate after a saturation step.
\* Colours in which the candidate has left the basin.  The first definition is
\* a deliberately wrong variant (no colour ever escapes), used to probe the
\* sensitivity of C2.
EscapedColors_None(successors, basin) == {}
EscapedColors(successors, basin) == ColorsOf(successors \ basin)

XbBasinDone(context, state, cmp, r) ==
    IF r.res.tag # "Ready"
    THEN [res |-> r.res, state |-> [state EXCEPT !.computing.comp = r.comp]]
    ELSE [res |-> Working,
          state |-> [state EXCEPT !.computing =
              [XbIdle EXCEPT !.phase = "Attractor", !.basin = r.res.set,
                  !.attractor = cmp.pivot,
                  !.attractor_config = ReachabilityConfigFrom(context)]]]

\* The grown candidate without the colours that escaped the basin.  The first
\* definition is a deliberately wrong variant (an escape in one colour drops
\* the candidate in every colour), used to probe the sensitivity of C29.
XbGrow_DropsAll(grown, escaped) ==
    IF escaped # {} THEN {} ELSE grown
XbGrow(grown, escaped) ==
    IF escaped # {} THEN MinusColors(grown, escaped) ELSE grown

\* One saturation step of the attractor candidate returned `successors`.
\* The first definition is a deliberately wrong variant (only the candidate
\* is taken out of `remaining`, not its basin), used to probe the sensitivity
\* of C27.
XbSaturated_KeepsBasin(state, cmp, successors) ==
    IF successors.cancelled
    THEN [res |-> CancelledBy("cancelled"), state |-> state]
    ELSE IF successors.set \subseteq cmp.attractor
    THEN [res |-> IF cmp.attractor = {} THEN Working ELSE Item(cmp.attractor),
          state |-> [computing |-> XbIdle,
                     remaining |-> state.remaining \ cmp.attractor]]
    ELSE [res |-> Working,
          state |-> [state EXCEPT !.computing.attractor =
                        XbGrow(cmp.attractor \cup successors.set,
                               EscapedColors(successors.set, cmp.basin))]]
XbSaturated(state, cmp, successors) ==
    IF successors.cancelled
    THEN [res |-> CancelledBy("cancelled"), state |-> state]
    ELSE IF successors.set \subseteq cmp.attractor
    THEN [res |-> IF cmp.attractor = {} THEN Working ELSE Item(cmp.attractor),
          state |-> [computing |-> XbIdle,
                     remaining |-> state.remaining \ cmp.basin]]
    ELSE [res |-> Working,
          state |-> [state EXCEPT !.computing.attractor =
                        XbGrow(cmp.attractor \cup successors.set,
                               EscapedColors(successors.set, cmp.basin))]]

XieBeerelStep(context, state, cancel_) ==
    CASE state.computing.phase = "Idle" ->
        IF state.remaining = {}
        THEN [res |-> Exhausted, state |-> state]
        ELSE [res |-> Working,
              state |-> [state EXCEPT !.computing =
                  [XbIdle EXCEPT !.phase = "Basin",
                      !.pivot = pick_vertex(state.remaining),
                      !.comp = BackwardReachability(
                          restrict_state_space(ReachabilityConfigFrom(context),
                                               state.remaining),
                          pick_vertex(state.remaining))]]]
      [] state.computing.phase = "Basin" ->
        XbBasinDone(context, state, state.computing,
                    try_compute(state.computing.comp, cancel_))
      [] state.computing.phase = "Attractor" ->
        XbSaturated(state, state.computing,
                    SaturationSuccessors(state.computing.attractor_config,
                                         state.computing.attractor, cancel_))

(***************************************************************************)
(* Interleaved transition-guided reduction (attractor/itgr.rs).            *)
(***************************************************************************)
NoCtx == ReachabilityConfig(MkGraph({}))
Task(var, kind) ==
    [var |-> var, kind |-> kind, forward |-> {}, extended_component |-> {},
     universe_forward |-> NoCtx, basin |-> {}, bottom |-> {}]

weight(t) ==
    CASE t.kind = "Forward" -> SymbolicSize(t.forward)
      [] t.kind = "Extended" -> SymbolicSize(t.extended_component)
      [] t.kind = "ForwardBasin" -> SymbolicSize(t.basin)
      [] t.kind = "BottomBasin" -> SymbolicSize(t.basin)

\* The first definition is a deliberately wrong variant (an extended task's
\* forward set is left as it was), used to probe the sensitivity of C39.
restrict_to_KeepsForward(t, R) ==
    CASE t.kind = "Forward" -> [t EXCEPT !.forward = @ \cap R]
      [] t.kind = "Extended" ->
            [t EXCEPT !.extended_component = @ \cap R,
                      !.universe_forward = restrict_state_space(@, R)]
      [] t.kind = "ForwardBasin" -> [t EXCEPT !.forward = @ \cap R, !.basin = @ \cap R]
      [] t.kind = "BottomBasin" -> [t EXCEPT !.bottom = @ \cap R, !.basin = @ \cap R]
restrict_to(t, R) ==
    CASE t.kind = "Forward" -> [t EXCEPT !.forward = @ \cap R]
      [] t.kind = "Extended" ->
            [t EXCEPT !.forward = @ \cap R, !.extended_component = @ \cap R,
                      !.universe_forward = restrict_state_space(@, R)]
      [] t.kind = "ForwardBasin" -> [t EXCEPT !.forward = @ \cap R, !.basin = @ \cap R]
      [] t.kind = "BottomBasin" -> [t EXCEPT !.bottom = @ \cap R, !.basin = @ \cap R]

\* Ascending sequence of the variables of a set.
RECURSIVE VarSeq(_)
VarSeq(A) == IF A = {} THEN <<>> ELSE <<MinOf(A)>> \o VarSeq(A \ {MinOf(A)})

ItgrState(g, universe) ==
    [remaining_set |-> universe,
     remaining_reachability |-> ReachabilityConfig(Restrict(g, universe)),
     to_discard |-> {},
     reductions |-> [i \in 1..Cardinality(GraphVariables) |->
                        [Task(VarSeq(GraphVariables)[i], "Forward")
                            EXCEPT !.forward = VarCanPost(g, VarSeq(GraphVariables)[i], universe)]]]

active_variables(state) == state.remaining_reachability.variables

is_forward_closed(g, set) == \A v \in GraphVariables : VarCanPostOut(g, v, set) = {}

\* sort_by_cached_key(|(_, it)| Reverse(it.weight())): stable, heaviest first.
RemoveAt(seq, i) == SubSeq(seq, 1, i - 1) \o SubSeq(seq, i + 1, Len(seq))
RECURSIVE SortByReverseWeight(_)
SortByReverseWeight(seq) ==
    IF seq = <<>> THEN <<>>
    ELSE LET i == MinOf({j \in DOMAIN seq : \A k \in DOMAIN seq : weight(seq[k]) <= weight(seq[j])})
         IN <<seq[i]>> \o SortByReverseWeight(RemoveAt(seq, i))

\* The active variables that survive a discard: those that can still fire
\* inside the remaining set.  The first definition is a deliberately wrong
\* variant (a variable survives only if it can fire from every remaining
\* state), used to probe the sensitivity of C33.
PruneVariables_Strict(variables, g, remaining) ==
    {v \in variables : VarCanPostWithin(g, v, remaining) = remaining}
PruneVariables(variables, g, remaining) ==
    {v \in variables : VarCanPostWithin(g, v, remaining) # {}}

\* First part of a step: apply a scheduled discard.  The first definition is
\* a deliberately wrong variant (the discard is forgotten, not subtracted),
\* used to probe the sensitivity of C28.
ApplyDiscard_Dropped(state) == [state EXCEPT !.to_discard = {}]
ApplyDiscard(state) ==
    IF state.to_discard = {} THEN state
    ELSE LET remaining == state.remaining_set \ state.to_discard
             g == Restrict(state.remaining_reachability.graph, remaining)
             keep == PruneVariables(state.remaining_reachability.variables,
                                    g, remaining)
         IN [remaining_set |-> remaining,
             remaining_reachability |->
                 [state.remaining_reachability EXCEPT !.graph = g, !.variables = keep],
             to_discard |-> {},
             reductions |-> [i \in DOMAIN state.reductions |->
                                 restrict_to(state.reductions[i], remaining)]]

\* Second part: basin tasks keep priority, otherwise re-sort.  The first
\* definition is a deliberately wrong variant (the list is never sorted), used
\* to probe the sensitivity of C21.
Schedule_Unsorted(state) == state
Schedule(state) ==
    IF state.reductions # <<>> /\ Last(state.reductions).kind \in {"BottomBasin", "ForwardBasin"}
    THEN state
    ELSE [state EXCEPT !.reductions = SortByReverseWeight(@)]

SetLast(seq, t) == [seq EXCEPT ![Len(seq)] = t]

\* What a finished forward-basin task discards.  The first definition is a
\* deliberately wrong variant (the forward set is discarded too), used to probe
\* the sensitivity of C3.
ForwardBasinDiscard_All(basin, forward) == basin
ForwardBasinDiscard(basin, forward) == basin \ forward

\* A forward task after one saturation step returned `post`.
ItgrForward(context, state, x, post) ==
    IF post.cancelled THEN [res |-> CancelledBy("cancelled"), state |-> state]
    ELSE IF post.set = {}
    THEN LET forward == x.forward
             forward_config == restrict_state_space(state.remaining_reachability, forward)
             extended == [Task(x.var, "Extended") EXCEPT
                             !.universe_forward = forward_config,
                             !.extended_component =
                                 VarCanPost(context.graph, x.var, state.remaining_set),
                             !.forward = forward]
             basin_candidates == state.remaining_set \ forward
             fbasin == [Task(x.var, "ForwardBasin") EXCEPT
                             !.forward = forward, !.basin = forward]
             pushed == Append(Pop(state.reductions), extended)
         IN [res |-> Working,
             state |-> [state EXCEPT !.reductions =
                 IF basin_candidates # {} THEN Append(pushed, fbasin) ELSE pushed]]
    ELSE [res |-> Working,
          state |-> [state EXCEPT !.reductions =
              SetLast(@, [x EXCEPT !.forward = @ \cup post.set])]]

\* An extended-component task after one saturation step returned `pre`.
ItgrExtended(state, x, pre) ==
    IF pre.cancelled THEN [res |-> CancelledBy("cancelled"), state |-> state]
    ELSE IF pre.set = {}
    THEN LET bottom == x.forward \ x.extended_component
             bbasin == [Task(x.var, "BottomBasin") EXCEPT
                             !.bottom = bottom, !.basin = bottom]
         IN [res |-> Working,
             state |-> [state EXCEPT !.reductions =
                 IF bottom # {} THEN Append(Pop(state.reductions), bbasin)
                 ELSE Pop(state.reductions)]]
    ELSE [res |-> Working,
          state |-> [state EXCEPT !.reductions =
              SetLast(@, [x EXCEPT !.extended_component = @ \cup pre.set])]]

\* A basin task after one saturation step returned `pre`; a finished task
\* schedules `discard`.  The first definition is a deliberately wrong variant
\* (the task discards after its first step, before the basin is complete),
\* used to probe the sensitivity of C22.
ItgrBasin_Early(state, x, pre, discard) ==
    IF pre.cancelled THEN [res |-> CancelledBy("cancelled"), state |-> state]
    ELSE [res |-> Working,
          state |-> [state EXCEPT !.to_discard = (x.basin \cup pre.set) \ x.forward,
                                  !.reductions = Pop(@)]]
ItgrBasin(state, x, pre, discard) ==
    IF pre.cancelled THEN [res |-> CancelledBy("cancelled"), state |-> state]
    ELSE IF pre.set = {}
    THEN [res |-> Working,
          state |-> [state EXCEPT !.to_discard = discard, !.reductions = Pop(@)]]
    ELSE [res |-> Working,
          state |-> [state EXCEPT !.reductions =
              SetLast(@, [x EXCEPT !.basin = @ \cup pre.set])]]

\* One step of the task on top of the stack.
ItgrTask(context, state, x, cancel_) ==
    CASE x.kind = "Forward" ->
        ItgrForward(context, state, x,
            SaturationSuccessors(state.remaining_reachability, x.forward, cancel_))
      [] x.kind = "Extended" ->
        ItgrExtended(state, x,
            SaturationPredecessors(x.universe_forward, x.extended_component, cancel_))
      [] x.kind = "ForwardBasin" ->
        ItgrBasin(state, x,
            SaturationPredecessors(state.remaining_reachability, x.basin, cancel_),
            ForwardBasinDiscard(x.basin, x.forward))
      [] x.kind = "BottomBasin" ->
        ItgrBasin(state, x,
            SaturationPredecessors(state.remaining_reachability, x.basin, cancel_),
            x.basin \ x.bottom)

ItgrScheduled(context, state, cancel_) ==
    IF state.reductions = <<>>
    THEN [res |-> Ready(state.remaining_set), state |-> state]
    ELSE ItgrTask(context, state, Last(state.reductions), cancel_)

ItgrStep(context, state0, cancel_) ==
    ItgrScheduled(context, Schedule(ApplyDiscard(state0)), cancel_)

(***************************************************************************)
(* Uninterrupted runs.  A generator is drained by calling try_next until   *)
(* it signals exhaustion (the Iterator adapter); ITGR is driven by         *)
(* Computation::compute.  A run is given up after MaxRunCalls calls.       *)
(***************************************************************************)
MaxRunCalls == 40

GeneratorStepOf(kind, ctx, state) ==
    CASE kind = "fwd_bwd" -> FwdBwdStep(ctx, state, FALSE)
      [] kind = "chain" -> ChainStep(ctx, state, FALSE)
      [] kind = "xie_beerel" -> XieBeerelStep(ctx, state, FALSE)

RECURSIVE Drain(_, _, _, _, _)
Drained(kind, ctx, items, fuel, r) ==
    CASE r.res.tag = "None" -> [exhausted |-> TRUE, items |-> items]
      [] r.res.tag = "Item" ->
            Drain(kind, ctx, r.state, Append(items, r.res.set), fuel - 1)
      [] r.res.tag = "Working" -> Drain(kind, ctx, r.state, items, fuel - 1)
      [] OTHER -> [exhausted |-> FALSE, items |-> items]
Drain(kind, ctx, state, items, fuel) ==
    IF fuel = 0
    THEN [exhausted |-> FALSE, items |-> items]
    ELSE Drained(kind, ctx, items, fuel, GeneratorStepOf(kind, ctx, state))

\* The object alone: the state and the result after n calls.
RECURSIVE TryComputeTimes(_, _)
TryComputeTimes(r, n) ==
    IF n = 0 THEN r ELSE TryComputeTimes(try_compute(r.comp, FALSE), n - 1)

ItemsAfter(items, r) == IF r.res.tag = "Item" THEN Append(items, r.res.set) ELSE items

TryNextCalled(items, r) ==
    [state |-> r.state, res |-> r.res, items |-> ItemsAfter(items, r)]

RECURSIVE TryNextTimes(_, _, _, _)
TryNextTimes(kind, ctx, g, n) ==
    IF n = 0 THEN g
    ELSE TryNextTimes(kind, ctx,
                      TryNextCalled(g.items, GeneratorStepOf(kind, ctx, g.state)),
                      n - 1)

RECURSIVE ItgrCompute(_, _, _)
ItgrComputed(ctx, fuel, r) ==
    IF r.res.tag = "Working" THEN ItgrCompute(ctx, r.state, fuel - 1) ELSE r.res
ItgrCompute(ctx, state, fuel) ==
    IF fuel = 0 THEN Working ELSE ItgrComputed(ctx, fuel, ItgrStep(ctx, state, FALSE))

(***************************************************************************)
(* Inputs.                                                                 *)
(***************************************************************************)
\* The algorithms treat colours alike, so only networks whose first colour has
\* at least as many transitions as the second are enumerated.
EdgesOfColor(E, c) == {e \in E : e[2] = c}
EdgeSetsUpTo(n) ==
    {E \in SUBSET AllEdges :
        /\ Cardinality(E) <= n
        /\ Cardinality(EdgesOfColor(E, 1)) >= Cardinality(EdgesOfColor(E, 2))}
\* Networks in which the second colour disables some transitions of the first.
NestedEdgeSetsUpTo(n) ==
    {E \in SUBSET AllEdges :
        /\ Cardinality(E) <= n
        /\ \A e \in EdgesOfColor(E, 2) : <<e[1], 1, e[3]>> \in E}
SmallGraphs == {MkGraph(E) : E \in EdgeSetsUpTo(MaxSmallEdges)}
Graphs == SmallGraphs \cup {MkGraph(E) : E \in NestedEdgeSetsUpTo(MaxEdges)}
PickMasks == {0}
TrimSettings == {"Both", "Sources", "Sinks", "None"}

NoScc ==
    /\ sccConfig = {}
    /\ fb = {} /\ fbRes = NotCalled /\ fbItems = <<>> /\ fbColl = NotCalled
    /\ ch = {} /\ chRes = NotCalled /\ chItems = <<>> /\ chColl = NotCalled
NoAttr ==
    /\ xb = {} /\ xbRes = NotCalled /\ xbItems = <<>>
    /\ itgr = {} /\ itgrRes = NotCalled
    /\ xr = {} /\ xrRes = NotCalled /\ xrItems = <<>>
NoComputation == comp = {} /\ compRes = NotCalled /\ compInit = {} /\ compCalls = 0
NoFilter == candidate = {} /\ filtered = {}
NoCli == [count |-> 0, enumerated |-> 0, error |-> FALSE, summary |-> FALSE,
          exit |-> "none"]
NoAux == calls = 0 /\ polls = 0 /\ restored = FALSE /\ cli = NoCli

(***************************************************************************)
(* The collect adapter (algorithm_trait/generator.rs): one step of the     *)
(* collector drives one try_next of the generator; `r` is its result.      *)
(***************************************************************************)
\* The first definition is a deliberately wrong variant of CollectorStep (the
\* reason of a cancellation is lost), used to probe the sensitivity of C10.
CollectorStep_LosesReason(r, collector) ==
    CASE r.tag = "None" -> [res |-> Ready({}), collector |-> collector]
      [] r.tag = "Item" -> [res |-> Working, collector |-> Append(collector, r.set)]
      [] r.tag = "Working" -> [res |-> Working, collector |-> collector]
      [] r.tag = "Cancelled" -> [res |-> CancelledBy(""), collector |-> collector]
CollectorStep(r, collector) ==
    CASE r.tag = "None" -> [res |-> Ready({}), collector |-> collector]
      [] r.tag = "Item" -> [res |-> Working, collector |-> Append(collector, r.set)]
      [] r.tag = "Working" -> [res |-> Working, collector |-> collector]
      [] r.tag = "Cancelled" -> [res |-> CancelledBy(r.reason), collector |-> collector]

\* Computation::compute: loop until Ready or Cancelled.
AfterCollect(res, current, next) ==
    CASE res.tag = "Ready" -> next
      [] res.tag = "Cancelled" -> "cancelled"
      [] OTHER -> current

(***************************************************************************)
(* SCC enumeration: the program of test_scc_comparison_impl collects the   *)
(* forward-backward generator, then the chain generator, on one graph.     *)
(***************************************************************************)
InitSccOn(graphs) ==
    /\ graph \in graphs
    /\ pickMask \in PickMasks
    /\ NoAux
    /\ sccConfig \in {[should_trim |-> t, filter_long_lived |-> l] :
                        t \in TrimSettings, l \in BOOLEAN}
    /\ cancel = FALSE
    /\ driver = "fwd_bwd"
    /\ fb = FwdBwdState(MkUnit(graph)) /\ fbRes = NotCalled /\ fbItems = <<>>
    /\ fbColl = NotCalled
    /\ ch = ChainState(graph) /\ chRes = NotCalled /\ chItems = <<>>
    /\ chColl = NotCalled
    /\ NoAttr /\ NoComputation /\ NoFilter

InitScc == InitSccOn(Graphs)

Context == SccConfig(graph, sccConfig.should_trim, sccConfig.filter_long_lived)

\* One try_compute of the collector over the forward-backward generator.
FwdBwdCollected(r, c) ==
    /\ fb' = r.state
    /\ fbRes' = r.res
    /\ fbItems' = c.collector
    /\ fbColl' = c.res
    /\ driver' = AfterCollect(c.res, driver, "chain")

FwdBwdStepped(r) == FwdBwdCollected(r, CollectorStep(r.res, fbItems))

FwdBwdNext ==
    /\ driver = "fwd_bwd"
    /\ FwdBwdStepped(FwdBwdStep(Context, fb, cancel))
    /\ UNCHANGED <<auxVars, envVars, cancel, chVars, xbVars, itgrVars, xrVars, compVars, filterVars>>

\* One try_compute of the collector over the chain generator.
ChainCollected(r, c) ==
    /\ ch' = r.state
    /\ chRes' = r.res
    /\ chItems' = c.collector
    /\ chColl' = c.res
    /\ driver' = AfterCollect(c.res, driver, "done")

ChainStepped(r) == ChainCollected(r, CollectorStep(r.res, chItems))

ChainNext ==
    /\ driver = "chain"
    /\ ChainStepped(ChainStep(Context, ch, cancel))
    /\ UNCHANGED <<auxVars, envVars, cancel, fbVars, xbVars, itgrVars, xrVars, compVars, filterVars>>

NextScc == FwdBwdNext \/ ChainNext

SpecScc == InitScc /\ [][NextScc]_vars

\* The same program on the networks of up to MaxPieceEdges transitions, for
\* the properties that are stated of every state of a run.
MaxPieceEdges == 5

PieceGraphs == {MkGraph(E) : E \in NestedEdgeSetsUpTo(MaxPieceEdges)}

InitPieces == InitSccOn(PieceGraphs)

SpecPieces == InitPieces /\ [][NextScc]_vars

(***************************************************************************)
(* The same program on small networks, with a timeout that may trip the    *)
(* cancellation flag at any moment: before compute tests it, or between    *)
(* that test and the tests inside the step operators.                      *)
(***************************************************************************)
InitCancel == InitSccOn(SmallGraphs)

Cancel ==
    /\ ~cancel
    /\ driver \in {"fwd_bwd", "chain"}
    /\ cancel' = TRUE
    /\ UNCHANGED <<auxVars, envVars, driver, fbVars, chVars, xbVars, itgrVars, xrVars,
                   compVars, filterVars>>

\* Computation::compute tests the flag itself before every try_compute.
ComputeCancelled ==
    /\ cancel
    /\ driver \in {"fwd_bwd", "chain"}
    /\ driver' = "cancelled"
    /\ UNCHANGED <<auxVars, envVars, cancel, fbVars, chVars, xbVars, itgrVars, xrVars,
                   compVars, filterVars>>

NextCancel == FwdBwdNext \/ ChainNext \/ Cancel \/ ComputeCancelled

SpecCancel == InitCancel /\ [][NextCancel]_vars

(***************************************************************************)
(* Attractor enumeration: the program of test_attractor_comparison_impl    *)
(* runs ITGR, then Xie-Beerel on the reduced graph and variables, then     *)
(* Xie-Beerel alone on the unreduced graph.                                *)
(***************************************************************************)
InitAttr ==
    /\ graph \in Graphs
    /\ pickMask \in PickMasks
    /\ NoAux
    /\ cancel = FALSE
    /\ driver = "itgr"
    /\ xb = XieBeerelState(MkUnit(graph)) /\ xbRes = NotCalled /\ xbItems = <<>>
    /\ itgr = ItgrState(graph, MkUnit(graph)) /\ itgrRes = NotCalled
    /\ xr = {} /\ xrRes = NotCalled /\ xrItems = <<>>
    /\ NoScc /\ NoComputation /\ NoFilter

\* config.restrict_state_space(&reduced).restrict_variables(itgr.state().active_variables())
ReducedConfig(g, reduced, active) ==
    [graph |-> Restrict(g, reduced), active_variables |-> active]

\* Computation::try_compute on the ITGR computation; on completion the
\* program configures Xie-Beerel on the reduced state space.
ItgrStepped(r) ==
    /\ itgr' = r.state
    /\ itgrRes' = r.res
    /\ IF r.res.tag = "Ready"
       THEN /\ driver' = "xie_beerel_reduced"
            /\ xr' = XieBeerelState(r.res.set)
       ELSE UNCHANGED <<driver, xr>>

ItgrNext ==
    /\ driver = "itgr"
    /\ ItgrStepped(ItgrStep(AttractorConfig(graph), itgr, cancel))
    /\ UNCHANGED <<auxVars, envVars, cancel, fbVars, chVars, xbVars, xrRes, xrItems,
                   compVars, filterVars>>

\* Generator::try_next on Xie-Beerel over the ITGR result.
XieBeerelReducedStepped(r) ==
    /\ xr' = r.state
    /\ xrRes' = r.res
    /\ xrItems' = IF r.res.tag = "Item" THEN Append(xrItems, r.res.set) ELSE xrItems
    /\ driver' = IF r.res.tag = "None" THEN "xie_beerel" ELSE driver

XieBeerelReducedNext ==
    /\ driver = "xie_beerel_reduced"
    /\ XieBeerelReducedStepped(
           XieBeerelStep(ReducedConfig(graph, itgrRes.set, active_variables(itgr)),
                         xr, cancel))
    /\ UNCHANGED <<auxVars, envVars, cancel, fbVars, chVars, xbVars, itgrVars, compVars, filterVars>>

\* Generator::try_next on Xie-Beerel over the whole graph.
XieBeerelStepped(r) ==
    /\ xb' = r.state
    /\ xbRes' = r.res
    /\ xbItems' = IF r.res.tag = "Item" THEN Append(xbItems, r.res.set) ELSE xbItems
    /\ driver' = IF r.res.tag = "None" THEN "done" ELSE driver

XieBeerelNext ==
    /\ driver = "xie_beerel"
    /\ XieBeerelStepped(XieBeerelStep(AttractorConfig(graph), xb, cancel))
    /\ UNCHANGED <<auxVars, envVars, cancel, fbVars, chVars, itgrVars, xrVars, compVars, filterVars>>

NextAttr == ItgrNext \/ XieBeerelReducedNext \/ XieBeerelNext

SpecAttr == InitAttr /\ [][NextAttr]_vars

(***************************************************************************)
(* A stand-alone reachability or trap computation, driven by repeated      *)
(* try_compute calls, also after it has completed.                         *)
(***************************************************************************)
MaxCallsAfterReady == 2

Algorithms == {"ForwardReachability", "BackwardReachability", "ForwardReachabilityBfs",
               "BackwardReachabilityBfs", "ForwardTrap", "BackwardTrap"}

ConfigureAlgorithm(name, ctx, S) ==
    CASE name = "ForwardReachability" -> ForwardReachability(ctx, S)
      [] name = "BackwardReachability" -> BackwardReachability(ctx, S)
      [] name = "ForwardReachabilityBfs" -> ForwardReachabilityBfs(ctx, S)
      [] name = "BackwardReachabilityBfs" -> BackwardReachabilityBfs(ctx, S)
      [] name = "ForwardTrap" -> ForwardTrap(ctx, S)
      [] name = "BackwardTrap" -> BackwardTrap(ctx, S)

\* Initial sets: one state in one or in both colours; traps start from the
\* complement of such a set.
Seeds == {{<<s, 1>>} : s \in States} \cup {{<<s, 1>>, <<s, 2>>} : s \in States}
InitialSets(name) ==
    IF name \in {"ForwardTrap", "BackwardTrap"}
    THEN {AllVertices \ S : S \in Seeds}
    ELSE Seeds

InitComp ==
    /\ graph \in SmallGraphs
    /\ pickMask \in PickMasks
    /\ NoAux
    /\ cancel = FALSE
    /\ \E name \in Algorithms, A \in SUBSET GraphVariables :
         /\ driver = name
         /\ compInit \in InitialSets(name)
         /\ comp = ConfigureAlgorithm(name,
                      restrict_variables(ReachabilityConfig(graph), A), compInit)
    /\ compRes = NotCalled
    /\ compCalls = 0
    /\ NoScc /\ NoAttr /\ NoFilter

TryComputeStepped(r) ==
    /\ comp' = r.comp
    /\ compRes' = r.res

\* Computation::try_compute.
TryComputeNext ==
    /\ driver \in Algorithms
    /\ compCalls < MaxCallsAfterReady
    /\ TryComputeStepped(try_compute(comp, cancel))
    /\ compCalls' = IF compRes.tag = "Ready" THEN compCalls + 1 ELSE compCalls
    /\ UNCHANGED <<auxVars, envVars, cancel, driver, compInit, fbVars, chVars, xbVars,
                   itgrVars, xrVars, filterVars>>

NextComp == TryComputeNext

SpecComp == InitComp /\ [][NextComp]_vars

(***************************************************************************)
(* A reachability, trap or trimming computation under an iteration budget  *)
(* and a symbolic-size budget, driven by Computation::compute: try_compute *)
(* is repeated until Ready or Cancelled.                                   *)
(***************************************************************************)
MaxBudgetEdges == 2
MaxIterationBudget == 2
MaxSizeBudget == 3

BudgetGraphs == {MkGraph(E) : E \in EdgeSetsUpTo(MaxBudgetEdges)}
IterationBudgets == (0..MaxIterationBudget) \cup {Unlimited}
SizeBudgets == (1..MaxSizeBudget) \cup {Unlimited}

BudgetAlgorithms == Algorithms \cup {"TrimSinks", "TrimSources", "TrimSinksAndSources"}

ConfigureBudgeted(name, ctx, S) ==
    CASE name \in Algorithms -> ConfigureAlgorithm(name, ctx, S)
      [] name = "TrimSinks" -> TrimSinks(ctx, S)
      [] name = "TrimSources" -> TrimSources(ctx, S)
      [] name = "TrimSinksAndSources" -> TrimSinksAndSources(ctx, S)

InitBudget ==
    /\ graph \in BudgetGraphs
    /\ pickMask \in PickMasks
    /\ NoAux
    /\ cancel = FALSE
    /\ driver = "budget"
    /\ \E name \in BudgetAlgorithms, i \in IterationBudgets, n \in SizeBudgets :
         /\ compInit \in (IF name \in Algorithms THEN InitialSets(name)
                          ELSE {AllVertices} \cup InitialSets("ForwardTrap"))
         /\ comp = ConfigureBudgeted(name,
                      [ReachabilityConfig(graph) EXCEPT !.max_iterations = i,
                                                        !.max_symbolic_size = n],
                      compInit)
    /\ compRes = NotCalled
    /\ compCalls = 0
    /\ NoScc /\ NoAttr /\ NoFilter

\* One round of the loop of Computation::compute.
BudgetedTryComputeNext ==
    /\ driver = "budget"
    /\ compRes.tag \notin {"Ready", "Cancelled"}
    /\ TryComputeStepped(try_compute(comp, cancel))
    /\ UNCHANGED <<auxVars, envVars, cancel, driver, compInit, compCalls, fbVars, chVars,
                   xbVars, itgrVars, xrVars, filterVars>>

NextBudget == BudgetedTryComputeNext

SpecBudget == InitBudget /\ [][NextBudget]_vars

(***************************************************************************)
(* A reachability, trap or trimming computation over any subset of the     *)
(* variables, without budgets, driven by Computation::compute's loop, with *)
(* the ambient cancellation flag tripped or not before its steps run.      *)
(***************************************************************************)
InitInterrupt ==
    /\ graph \in BudgetGraphs
    /\ pickMask \in PickMasks
    /\ NoAux
    /\ cancel \in BOOLEAN
    /\ driver = "budget"
    /\ \E name \in BudgetAlgorithms, A \in SUBSET GraphVariables :
         /\ compInit \in (IF name \in Algorithms THEN InitialSets(name)
                          ELSE {AllVertices} \cup InitialSets("ForwardTrap"))
         /\ comp = ConfigureBudgeted(name,
                      restrict_variables(ReachabilityConfig(graph), A), compInit)
    /\ compRes = NotCalled
    /\ compCalls = 0
    /\ NoScc /\ NoAttr /\ NoFilter

SpecInterrupt == InitInterrupt /\ [][NextBudget]_vars

(***************************************************************************)
(* The same computations, with a caller that calls try_compute again after *)
(* it returned Cancelled, up to MaxRetryCalls calls in all.                *)
(***************************************************************************)
MaxRetryCalls == 5

RetryTryComputeNext ==
    /\ driver = "budget"
    /\ compRes.tag = "Cancelled"
    /\ comp.steps < MaxRetryCalls
    /\ TryComputeStepped(try_compute(comp, cancel))
    /\ UNCHANGED <<auxVars, envVars, cancel, driver, compInit, compCalls, fbVars, chVars,
                   xbVars, itgrVars, xrVars, filterVars>>

NextRetry == BudgetedTryComputeNext \/ RetryTryComputeNext

SpecRetry == InitBudget /\ [][NextRetry]_vars

(***************************************************************************)
(* Every algorithm started on the empty set: a reachability, trap or       *)
(* trimming computation driven by Computation::compute; the two SCC        *)
(* generators collected one after the other; ITGR followed by Xie-Beerel   *)
(* on its result and Xie-Beerel on the empty set.                          *)
(***************************************************************************)
MaxEmptyEdges == 2

EmptySet == {}
EmptyRunGraphs == {MkGraph(E) : E \in EdgeSetsUpTo(MaxEmptyEdges)}

InitEmpty ==
    /\ graph \in EmptyRunGraphs
    /\ pickMask \in PickMasks
    /\ NoAux
    /\ cancel = FALSE
    /\ NoFilter
    /\ \/ /\ driver = "budget"
          /\ \E name \in BudgetAlgorithms, A \in SUBSET GraphVariables :
               comp = ConfigureBudgeted(name,
                          restrict_variables(ReachabilityConfig(graph), A), EmptySet)
          /\ compInit = EmptySet /\ compRes = NotCalled /\ compCalls = 0
          /\ NoScc /\ NoAttr
       \/ /\ driver = "fwd_bwd"
          /\ sccConfig \in {[should_trim |-> t, filter_long_lived |-> l] :
                              t \in TrimSettings, l \in BOOLEAN}
          /\ fb = FwdBwdState(EmptySet) /\ fbRes = NotCalled /\ fbItems = <<>>
          /\ fbColl = NotCalled
          /\ ch = ChainState(Restrict(graph, EmptySet)) /\ chRes = NotCalled
          /\ chItems = <<>> /\ chColl = NotCalled
          /\ NoAttr /\ NoComputation
       \/ /\ driver = "itgr"
          /\ xb = XieBeerelState(EmptySet) /\ xbRes = NotCalled /\ xbItems = <<>>
          /\ itgr = ItgrState(graph, EmptySet) /\ itgrRes = NotCalled
          /\ xr = {} /\ xrRes = NotCalled /\ xrItems = <<>>
          /\ NoScc /\ NoComputation

NextEmpty ==
    \/ BudgetedTryComputeNext
    \/ FwdBwdNext
    \/ ChainNext
    \/ ItgrNext
    \/ XieBeerelReducedNext
    \/ XieBeerelNext

SpecEmpty == InitEmpty /\ [][NextEmpty]_vars

(***************************************************************************)
(* A generator polled directly through Generator::try_next, also after it  *)
(* has signalled exhaustion.                                               *)
(***************************************************************************)
MaxPolls == 8

PollDrivers == {"poll_fwd_bwd", "poll_chain", "poll_xie_beerel"}

InitPoll ==
    /\ graph \in SmallGraphs
    /\ pickMask \in PickMasks
    /\ NoAux
    /\ sccConfig \in {[should_trim |-> t, filter_long_lived |-> l] :
                        t \in TrimSettings, l \in BOOLEAN}
    /\ cancel = FALSE
    /\ driver \in PollDrivers
    /\ driver = "poll_xie_beerel" => sccConfig = [should_trim |-> "None",
                                                  filter_long_lived |-> FALSE]
    /\ fb = FwdBwdState(MkUnit(graph)) /\ fbRes = NotCalled /\ fbItems = <<>>
    /\ fbColl = NotCalled
    /\ ch = ChainState(graph) /\ chRes = NotCalled /\ chItems = <<>>
    /\ chColl = NotCalled
    /\ xb = XieBeerelState(MkUnit(graph)) /\ xbRes = NotCalled /\ xbItems = <<>>
    /\ itgr = {} /\ itgrRes = NotCalled
    /\ xr = {} /\ xrRes = NotCalled /\ xrItems = <<>>
    /\ NoComputation /\ NoFilter

\* The generator has signalled exhaustion: by its last call, or before it.
Signalled(res) == res.tag = "None" \/ polls > 0

Polled(res) == polls' = IF Signalled(res) THEN polls + 1 ELSE polls

FwdBwdPolled(r) ==
    /\ fb' = r.state
    /\ fbRes' = r.res
    /\ fbItems' = ItemsAfter(fbItems, r)

FwdBwdTryNext ==
    /\ driver = "poll_fwd_bwd"
    /\ polls < MaxPolls
    /\ FwdBwdPolled(FwdBwdStep(Context, fb, cancel))
    /\ Polled(fbRes)
    /\ UNCHANGED <<envVars, cancel, driver, fbColl, chVars, xbVars, itgrVars, xrVars,
                   compVars, filterVars, calls, restored, cli>>

ChainPolled(r) ==
    /\ ch' = r.state
    /\ chRes' = r.res
    /\ chItems' = ItemsAfter(chItems, r)

ChainTryNext ==
    /\ driver = "poll_chain"
    /\ polls < MaxPolls
    /\ ChainPolled(ChainStep(Context, ch, cancel))
    /\ Polled(chRes)
    /\ UNCHANGED <<envVars, cancel, driver, chColl, fbVars, xbVars, itgrVars, xrVars,
                   compVars, filterVars, calls, restored, cli>>

XieBeerelPolled(r) ==
    /\ xb' = r.state
    /\ xbRes' = r.res
    /\ xbItems' = ItemsAfter(xbItems, r)

XieBeerelTryNext ==
    /\ driver = "poll_xie_beerel"
    /\ polls < MaxPolls
    /\ XieBeerelPolled(XieBeerelStep(AttractorConfig(graph), xb, cancel))
    /\ Polled(xbRes)
    /\ UNCHANGED <<envVars, cancel, driver, fbVars, chVars, itgrVars, xrVars,
                   compVars, filterVars, calls, restored, cli>>

NextPoll == FwdBwdTryNext \/ ChainTryNext \/ XieBeerelTryNext

SpecPoll == InitPoll /\ [][NextPoll]_vars

(***************************************************************************)
(* Two independent objects, a stand-alone computation and the              *)
(* forward-backward generator, stepped alternately in any order.           *)
(***************************************************************************)
MaxInterleavedEdges == 2
MaxInterleavedCalls == 10

InterleavedGraphs == {MkGraph(E) : E \in EdgeSetsUpTo(MaxInterleavedEdges)}
InterleavedAlgorithms == {"ForwardReachability", "ForwardTrap"}
\* Initial sets that treat both colours alike.
InterleavedSets(name) == {S \in InitialSets(name) : ColorsOf(S) = Colors}

InitInterleave ==
    /\ graph \in InterleavedGraphs
    /\ pickMask \in PickMasks
    /\ NoAux
    /\ sccConfig \in {[should_trim |-> t, filter_long_lived |-> FALSE] :
                        t \in {"Both", "None"}}
    /\ cancel = FALSE
    /\ driver = "interleave"
    /\ \E name \in InterleavedAlgorithms :
         /\ compInit \in InterleavedSets(name)
         /\ comp = ConfigureAlgorithm(name, ReachabilityConfig(graph), compInit)
    /\ compRes = NotCalled /\ compCalls = 0
    /\ fb = FwdBwdState(MkUnit(graph)) /\ fbRes = NotCalled /\ fbItems = <<>>
    /\ fbColl = NotCalled
    /\ ch = {} /\ chRes = NotCalled /\ chItems = <<>> /\ chColl = NotCalled
    /\ NoAttr /\ NoFilter

\* try_compute takes `&mut self`: the call writes the computation and its
\* result, nothing of the generator.  The first definition is a deliberately
\* wrong variant (the result cell is shared with the generator), used to probe
\* the sensitivity of C19.
ComputationCalled_SharedResult(r) ==
    /\ TryComputeStepped(r)
    /\ fbRes' = r.res
    /\ UNCHANGED <<fb, fbItems>>
ComputationCalled(r) ==
    /\ TryComputeStepped(r)
    /\ UNCHANGED <<fb, fbRes, fbItems>>

InterleavedTryCompute ==
    /\ driver = "interleave"
    /\ compRes.tag \notin {"Ready", "Cancelled"}
    /\ ComputationCalled(try_compute(comp, cancel))
    /\ UNCHANGED <<envVars, cancel, driver, compInit, compCalls, fbColl, chVars,
                   xbVars, itgrVars, xrVars, filterVars, auxVars>>

\* try_next takes `&mut self`: the call writes the generator, its result and
\* the items, nothing of the computation.
GeneratorCalled(r) ==
    /\ FwdBwdPolled(r)
    /\ UNCHANGED <<comp, compRes>>

InterleavedTryNext ==
    /\ driver = "interleave"
    /\ fbRes.tag \notin {"None", "Cancelled"}
    /\ calls < MaxInterleavedCalls
    /\ GeneratorCalled(FwdBwdStep(Context, fb, cancel))
    /\ calls' = calls + 1
    /\ UNCHANGED <<envVars, cancel, driver, compInit, compCalls, fbColl, chVars,
                   xbVars, itgrVars, xrVars, filterVars, polls, restored, cli>>

NextInterleave == InterleavedTryCompute \/ InterleavedTryNext

SpecInterleave == InitInterleave /\ [][NextInterleave]_vars

(***************************************************************************)
(* Serialisation.  A derived Serialize writes every field of a struct in   *)
(* declaration order and an enum as its variant tag followed by the        *)
(* fields of the variant; a symbolic set is written in the canonical form  *)
(* of its decision diagram (here: its elements in increasing order), an    *)
(* Option as an empty or one-element list.  Deserialize reads the same     *)
(* layout back; the type parameters of the target type say which step      *)
(* operator a computation runs.                                            *)
(***************************************************************************)
VertexKey(x) == x[1] * (Cardinality(Colors) + 1) + x[2]
EdgeKey(e) == VertexKey(e) * Cardinality(Vars) + e[3]
VariableKey(v) == v

\* The elements of a set of <<key, element>> pairs by increasing key.
RECURSIVE SortKeyed(_)
SortKeyed(P) ==
    IF P = {} THEN <<>>
    ELSE LET m == CHOOSE x \in P : \A y \in P : x[1] <= y[1]
         IN <<m[2]>> \o SortKeyed(P \ {m})
SortedBy(S, Key(_)) == SortKeyed({<<Key(x), x>> : x \in S})

SerializeSet(S) == SortedBy(S, VertexKey)
DeserializeSet(q) == {q[i] : i \in DOMAIN q}

SerializeGraph(g) == <<SerializeSet(g.unit), SortedBy(g.en, EdgeKey)>>
DeserializeGraph(q) == [unit |-> DeserializeSet(q[1]), en |-> DeserializeSet(q[2])]

SerializeConfig(ctx) ==
    <<SerializeGraph(ctx.graph), SortedBy(ctx.variables, VariableKey),
      ctx.max_iterations, ctx.max_symbolic_size>>
DeserializeConfig(q) ==
    [graph |-> DeserializeGraph(q[1]), variables |-> DeserializeSet(q[2]),
     max_iterations |-> q[3], max_symbolic_size |-> q[4]]

\* Computation { context, state: Option<ReachabilityState { iteration, set }>,
\* output: Option }; the call counter of the model travels along.
SerializeComputation(c) ==
    <<SerializeConfig(c.context),
      IF c.hasState THEN <<<<c.state.iteration, SerializeSet(c.state.set)>>>> ELSE <<>>,
      IF c.hasOutput THEN <<SerializeSet(c.output)>> ELSE <<>>,
      c.steps>>
DeserializeComputation(skeleton, op, q) ==
    [skeleton |-> skeleton, op |-> op, context |-> DeserializeConfig(q[1]),
     hasState |-> q[2] # <<>>,
     state |-> IF q[2] # <<>>
               THEN [iteration |-> q[2][1][1], set |-> DeserializeSet(q[2][1][2])]
               ELSE NoState,
     hasOutput |-> q[3] # <<>>,
     output |-> IF q[3] # <<>> THEN DeserializeSet(q[3][1]) ELSE {},
     steps |-> q[4]]

\* enum Step { Idle, Trimming(Step1), Backward(Step2), Forward(Step3) } of the
\* forward-backward generator.  The trimming computation is one of several
\* kinds and carries its own tag.
SerializeStep(step) ==
    CASE step.phase = "Idle" -> <<"Idle">>
      [] step.phase = "Trimming" ->
            <<"Trimming", step.comp.skeleton, step.comp.op,
              SerializeComputation(step.comp)>>
      [] step.phase = "Backward" ->
            <<"Backward", SerializeSet(step.pivot), SerializeSet(step.universe),
              SerializeComputation(step.comp)>>
      [] step.phase = "Forward" ->
            <<"Forward", SerializeSet(step.universe), SerializeSet(step.backward),
              SerializeComputation(step.comp)>>
DeserializeStep(q) ==
    CASE q[1] = "Idle" -> FbIdle
      [] q[1] = "Trimming" ->
            [FbIdle EXCEPT !.phase = "Trimming",
                           !.comp = DeserializeComputation(q[2], q[3], q[4])]
      [] q[1] = "Backward" ->
            [FbIdle EXCEPT !.phase = "Backward", !.pivot = DeserializeSet(q[2]),
                !.universe = DeserializeSet(q[3]),
                !.comp = DeserializeComputation("IterativeUnion",
                                                "SaturationPredecessors", q[4])]
      [] q[1] = "Forward" ->
            [FbIdle EXCEPT !.phase = "Forward", !.universe = DeserializeSet(q[2]),
                !.backward = DeserializeSet(q[3]),
                !.comp = DeserializeComputation("IterativeUnion",
                                                "SaturationSuccessors", q[4])]

\* FwdBwdState { computing, to_process }.  The first definition is a
\* deliberately wrong variant (the worklist is not written), used to probe the
\* sensitivity of C13.
SerializeFwdBwdState_WithoutWorklist(state) == <<SerializeStep(state.computing), <<>>>>
SerializeFwdBwdState(state) ==
    <<SerializeStep(state.computing),
      [i \in DOMAIN state.to_process |-> SerializeSet(state.to_process[i])]>>
DeserializeFwdBwdState(q) ==
    [computing |-> DeserializeStep(q[1]),
     to_process |-> [i \in DOMAIN q[2] |-> DeserializeSet(q[2][i])]]

(***************************************************************************)
(* An object is stepped some number of times, written out, read back, and  *)
(* the copy is driven to completion.                                       *)
(***************************************************************************)
InitSerde ==
    /\ graph \in SmallGraphs
    /\ pickMask \in PickMasks
    /\ NoAux
    /\ cancel = FALSE
    /\ \/ /\ driver = "serde_generator"
          /\ sccConfig \in {[should_trim |-> t, filter_long_lived |-> l] :
                              t \in TrimSettings, l \in BOOLEAN}
          /\ fb = FwdBwdState(MkUnit(graph)) /\ fbRes = NotCalled /\ fbItems = <<>>
          /\ fbColl = NotCalled
          /\ NoComputation
       \/ /\ driver = "serde_computation"
          /\ \E name \in BudgetAlgorithms, A \in SUBSET GraphVariables :
               /\ compInit \in (IF name \in Algorithms THEN InitialSets(name)
                                ELSE {AllVertices} \cup InitialSets("ForwardTrap"))
               /\ comp = ConfigureBudgeted(name,
                            restrict_variables(ReachabilityConfig(graph), A), compInit)
          /\ compRes = NotCalled /\ compCalls = 0
          /\ sccConfig = {}
          /\ fb = {} /\ fbRes = NotCalled /\ fbItems = <<>> /\ fbColl = NotCalled
    /\ ch = {} /\ chRes = NotCalled /\ chItems = <<>> /\ chColl = NotCalled
    /\ NoAttr /\ NoFilter

SerdeTryCompute ==
    /\ driver = "serde_computation"
    /\ compRes.tag \notin {"Ready", "Cancelled"}
    /\ TryComputeStepped(try_compute(comp, cancel))
    /\ calls' = calls + 1
    /\ UNCHANGED <<envVars, cancel, driver, compInit, compCalls, fbVars, chVars,
                   xbVars, itgrVars, xrVars, filterVars, polls, restored, cli>>

SerdeTryNext ==
    /\ driver = "serde_generator"
    /\ fbRes.tag \notin {"None", "Cancelled"}
    /\ FwdBwdPolled(FwdBwdStep(Context, fb, cancel))
    /\ calls' = calls + 1
    /\ UNCHANGED <<envVars, cancel, driver, fbColl, chVars, xbVars, itgrVars,
                   xrVars, compVars, filterVars, polls, restored, cli>>

\* serde_json::to_string(&computation), then serde_json::from_str.
RoundTripComputation ==
    /\ driver = "serde_computation"
    /\ calls >= 1 /\ ~restored
    /\ comp' = DeserializeComputation(comp.skeleton, comp.op,
                                      SerializeComputation(comp))
    /\ restored' = TRUE
    /\ UNCHANGED <<envVars, cancel, driver, compRes, compInit, compCalls, fbVars,
                   chVars, xbVars, itgrVars, xrVars, filterVars, calls, polls, cli>>

\* serde_json::to_string(&generator), then serde_json::from_str: the context
\* (the graph of the configuration) and the state.
RoundTripGenerator ==
    /\ driver = "serde_generator"
    /\ calls >= 1 /\ ~restored
    /\ graph' = DeserializeGraph(SerializeGraph(graph))
    /\ fb' = DeserializeFwdBwdState(SerializeFwdBwdState(fb))
    /\ restored' = TRUE
    /\ UNCHANGED <<pickMask, sccConfig, cancel, driver, fbRes, fbItems, fbColl,
                   chVars, xbVars, itgrVars, xrVars, compVars, filterVars, calls,
                   polls, cli>>

NextSerde ==
    \/ SerdeTryCompute
    \/ SerdeTryNext
    \/ RoundTripComputation
    \/ RoundTripGenerator

SpecSerde == InitSerde /\ [][NextSerde]_vars

(***************************************************************************)
(* The command-line programs biodivine_scc (forward-backward generator)    *)
(* and biodivine_attractor (Xie-Beerel on the whole graph): the            *)
(* enumeration loop over the blocking iterator, the summary line and the   *)
(* exit status.  One action is one try_next of the iterator adapter; the   *)
(* call that ends the loop also prints the summary and returns from main.  *)
(***************************************************************************)
MaxCount == 2

CliDrivers == {"cli_scc", "cli_attractor"}

InitCli ==
    /\ graph \in SmallGraphs
    /\ pickMask \in PickMasks
    /\ calls = 0 /\ polls = 0 /\ restored = FALSE
    /\ cli \in {[NoCli EXCEPT !.count = n] : n \in 0..MaxCount}
    /\ sccConfig \in {[should_trim |-> t, filter_long_lived |-> l] :
                        t \in TrimSettings, l \in BOOLEAN}
    /\ cancel = FALSE
    /\ driver \in CliDrivers
    /\ driver = "cli_attractor" => sccConfig = [should_trim |-> "None",
                                                filter_long_lived |-> FALSE]
    /\ fb = FwdBwdState(MkUnit(graph)) /\ fbRes = NotCalled /\ fbItems = <<>>
    /\ fbColl = NotCalled
    /\ ch = ChainState(graph) /\ chRes = NotCalled /\ chItems = <<>>
    /\ chColl = NotCalled
    /\ xb = XieBeerelState(MkUnit(graph)) /\ xbRes = NotCalled /\ xbItems = <<>>
    /\ itgr = {} /\ itgrRes = NotCalled
    /\ xr = {} /\ xrRes = NotCalled /\ xrItems = <<>>
    /\ NoComputation /\ NoFilter

\* main after the loop: the summary line is printed and main returns.
CliReturned(c) == [c EXCEPT !.summary = TRUE, !.exit = "0"]

\* Ok(item): counted and printed below the limit; the loop breaks at the limit.
CliOk(c) ==
    LET n == IF c.count = 0 \/ c.enumerated < c.count
             THEN c.enumerated + 1 ELSE c.enumerated
        counted == [c EXCEPT !.enumerated = n]
    IN IF c.count > 0 /\ n >= c.count THEN CliReturned(counted) ELSE counted

\* Err(e): the error line is printed and the loop breaks.
CliErr(c) == CliReturned([c EXCEPT !.error = TRUE])

\* One turn of Iterator::next inside the for loop.
CliMatched(c, res) ==
    CASE res.tag = "Item" -> CliOk(c)
      [] res.tag = "Cancelled" -> CliErr(c)
      [] res.tag = "None" -> CliReturned(c)
      [] OTHER -> c

CliSccLoop ==
    /\ driver = "cli_scc"
    /\ cli.exit = "none"
    /\ FwdBwdPolled(FwdBwdStep(Context, fb, cancel))
    /\ cli' = CliMatched(cli, fbRes')
    /\ UNCHANGED <<envVars, cancel, driver, fbColl, chVars, xbVars, itgrVars, xrVars,
                   compVars, filterVars, calls, polls, restored>>

CliAttractorLoop ==
    /\ driver = "cli_attractor"
    /\ cli.exit = "none"
    /\ XieBeerelPolled(XieBeerelStep(AttractorConfig(graph), xb, cancel))
    /\ cli' = CliMatched(cli, xbRes')
    /\ UNCHANGED <<envVars, cancel, driver, fbVars, chVars, itgrVars, xrVars,
                   compVars, filterVars, calls, polls, restored>>

\* The ambient cancellation is tripped while the program runs.
CliCancel ==
    /\ ~cancel
    /\ cli.exit = "none"
    /\ cancel' = TRUE
    /\ UNCHANGED <<auxVars, envVars, driver, fbVars, chVars, xbVars, itgrVars, xrVars,
                   compVars, filterVars>>

NextCli == CliSccLoop \/ CliAttractorLoop \/ CliCancel

SpecCli == InitCli /\ [][NextCli]_vars

(***************************************************************************)
(* retain_long_lived applied to an arbitrary candidate set.                *)
(***************************************************************************)
InitFilter ==
    /\ graph \in SmallGraphs
    /\ pickMask \in PickMasks
    /\ NoAux
    /\ cancel = FALSE
    /\ driver = "filter"
    /\ candidate \in (SUBSET AllVertices) \ {{}}
    /\ filtered = {}
    /\ NoScc /\ NoAttr /\ NoComputation

RetainLongLivedNext ==
    /\ driver = "filter"
    /\ filtered' = retain_long_lived(graph, candidate)
    /\ driver' = "done"
    /\ UNCHANGED <<auxVars, envVars, cancel, candidate, fbVars, chVars, xbVars, itgrVars,
                   xrVars, compVars>>

NextFilter == RetainLongLivedNext

SpecFilter == InitFilter /\ [][NextFilter]_vars

(***************************************************************************)
(* Properties of SCC enumeration.                                          *)
(***************************************************************************)
ItemSlice(items, i, c) == IntersectColors(items[i], {c})
SliceCount(items, C) ==
    Cardinality({i \in DOMAIN items : \E c \in Colors : ItemSlice(items, i, c) = C})
ItemCount(items, S) == Cardinality({i \in DOMAIN items : items[i] = S})
ItemsOf(items) == {items[i] : i \in DOMAIN items}

EmitsExactly(items, sccs) ==
    /\ SlicesOf(items) = sccs
    /\ \A C \in sccs : SliceCount(items, C) = 1

\* The state in which a collector has just completed.
FwdBwdExhausted == fbColl.tag = "Ready" /\ chColl = NotCalled
ChainExhausted == chColl.tag = "Ready"

\* C1: when the forward-backward generator signals exhaustion with the
\* long-lived filter off, the colour-slices of its items are exactly the SCCs
\* with at least two states, each in exactly one item, under every trim setting.
C1_FwdBwdEmitsNonTrivialSccs ==
    (FwdBwdExhausted /\ ~sccConfig.filter_long_lived)
        => EmitsExactly(fbItems, NonTrivialSccs(graph))

C1_Witness ==
    /\ FwdBwdExhausted /\ ~sccConfig.filter_long_lived
    /\ sccConfig.should_trim = "Both"
    /\ \E i \in DOMAIN fbItems : ColorsOf(fbItems[i]) = Colors
    /\ \E i \in DOMAIN fbItems : ColorsOf(fbItems[i]) = {1}

\* C4 (as stated): both generators emit the same multiset of items.
C4_SameItemMultiset ==
    ChainExhausted =>
        \A S \in ItemsOf(fbItems) \cup ItemsOf(chItems) :
            ItemCount(fbItems, S) = ItemCount(chItems, S)

\* C4 (amended): for every colour, both generators emit the same multiset of
\* colour-slices; only the grouping of colours into items may differ.
C4_SameSliceMultiset ==
    ChainExhausted =>
        \A C \in SlicesOf(fbItems) \cup SlicesOf(chItems) :
            SliceCount(fbItems, C) = SliceCount(chItems, C)

C4_Witness ==
    /\ ChainExhausted
    /\ Len(fbItems) >= 1
    /\ Len(fbItems) # Len(chItems)

\* C8: with the long-lived filter on, each generator run to exhaustion emits,
\* per colour, exactly the non-trivial SCCs that no single variable's update
\* empties; and filtering a whole universe, when it is popped or after it was
\* trimmed, keeps every long-lived SCC the universe contains.
UniverseFilterKeeps(U) ==
    \A C \in LongLivedSccs(graph) :
        C \subseteq U => C \subseteq apply_long_lived_filter(Context, U)

C8_LongLivedSccsEmitted ==
    sccConfig.filter_long_lived =>
        /\ FwdBwdExhausted => EmitsExactly(fbItems, LongLivedSccs(graph))
        /\ ChainExhausted => EmitsExactly(chItems, LongLivedSccs(graph))
        /\ (fb.computing.phase = "Idle" /\ fb.to_process # <<>>)
                => UniverseFilterKeeps(Last(fb.to_process))
        /\ (fb.computing.phase = "Trimming"
                /\ try_compute(fb.computing.comp, cancel).res.tag = "Ready")
                => UniverseFilterKeeps(try_compute(fb.computing.comp, cancel).res.set)

C8_Witness ==
    /\ sccConfig.filter_long_lived
    /\ ChainExhausted
    /\ Len(fbItems) >= 1
    /\ LongLivedSccs(graph) # NonTrivialSccs(graph)
    /\ \E c \in Colors :
         /\ \E C \in LongLivedSccs(graph) : ColorsOf(C) = {c}
         /\ \E C \in NonTrivialSccs(graph) \ LongLivedSccs(graph) : ColorsOf(C) = {c}

\* C10: a step of an outer state machine whose inner computation or generator
\* reports Working or Cancelled reports the very same result and keeps its
\* phase and worklist; the phase changes only on an inner Ready.
FbInner == try_compute(fb.computing.comp, cancel).res
ChInner == try_compute(ch.computing.comp, cancel).res

FbPropagates ==
    (driver = "fwd_bwd" /\ fbVars' # fbVars /\ fb.computing.phase # "Idle") =>
        /\ FbInner.tag \in {"Working", "Cancelled"} =>
              /\ fbRes' = FbInner
              /\ fb'.computing.phase = fb.computing.phase
              /\ fb'.to_process = fb.to_process
        /\ fb'.computing.phase # fb.computing.phase => FbInner.tag = "Ready"

ChPropagates ==
    (driver = "chain" /\ chVars' # chVars /\ ch.computing.phase # "Idle") =>
        /\ ChInner.tag \in {"Working", "Cancelled"} =>
              /\ chRes' = ChInner
              /\ ch'.computing.phase = ch.computing.phase
              /\ ch'.to_process = ch.to_process
        /\ ch'.computing.phase # ch.computing.phase => ChInner.tag = "Ready"

CollectorPropagates ==
    /\ (driver = "fwd_bwd" /\ fbVars' # fbVars /\ fbRes'.tag \in {"Working", "Cancelled"}) =>
          fbColl' = fbRes' /\ fbItems' = fbItems
    /\ (driver = "chain" /\ chVars' # chVars /\ chRes'.tag \in {"Working", "Cancelled"}) =>
          chColl' = chRes' /\ chItems' = chItems
    /\ fbItems' # fbItems => fbRes'.tag = "Item"
    /\ chItems' # chItems => chRes'.tag = "Item"

C10_InnerIncompletePropagates ==
    [][FbPropagates /\ ChPropagates /\ CollectorPropagates]_vars

C10_Witness ==
    /\ cancel
    /\ fbRes = CancelledBy("cancelled")
    /\ fbColl = CancelledBy("cancelled")
    /\ fb.computing.phase = "Forward"
    /\ Len(fbItems) >= 1
    /\ fb.to_process # <<>>

(***************************************************************************)
(* Properties of attractor enumeration.                                    *)
(***************************************************************************)
\* C2: once Xie-Beerel, started from the full state space, has signalled
\* exhaustion, the colour-slices of its items are exactly the bottom SCCs
\* (fixed points included), each in exactly one item.
C2_XieBeerelEmitsAttractors ==
    driver = "done" => EmitsExactly(xbItems, Attractors(graph))

C2_Witness ==
    /\ driver = "done"
    /\ \E C \in SlicesOf(xbItems) : Cardinality(C) = 1
    /\ \E C \in SlicesOf(xbItems) : Cardinality(C) >= 2
    /\ \E i \in DOMAIN xbItems : ColorsOf(xbItems[i]) # Colors

\* C3: Xie-Beerel on the ITGR result emits, colour by colour, the same
\* attractors as Xie-Beerel alone on the unreduced graph.
C3_ItgrPreservesAttractors ==
    driver = "done" =>
        /\ SlicesOf(xrItems) = SlicesOf(xbItems)
        /\ \A C \in SlicesOf(xbItems) : SliceCount(xrItems, C) = SliceCount(xbItems, C)

C3_Witness ==
    /\ driver = "done"
    /\ itgrRes.set # MkUnit(graph)
    /\ active_variables(itgr) # GraphVariables
    /\ Len(xbItems) >= 2

(***************************************************************************)
(* Properties of stand-alone computations.                                 *)
(***************************************************************************)
ActiveVariables == comp.context.variables
\* The state in which try_compute has just returned Ready for the first time.
Completed == compRes.tag = "Ready" /\ compCalls = 0

\* C5: a completed forward (backward) reachability computation, saturation or
\* BFS, returns exactly the states reachable from (able to reach) the initial
\* set through transitions of the active variables; the initial set included.
C5_ReachabilityIsClosure ==
    Completed =>
        /\ driver \in {"ForwardReachability", "ForwardReachabilityBfs"} =>
              /\ compInit \subseteq compRes.set
              /\ compRes.set = FwdClosure(graph, ActiveVariables, compInit)
        /\ driver \in {"BackwardReachability", "BackwardReachabilityBfs"} =>
              /\ compInit \subseteq compRes.set
              /\ compRes.set = BwdClosure(graph, ActiveVariables, compInit)

C5_Witness ==
    /\ Completed
    /\ driver = "BackwardReachabilityBfs"
    /\ ActiveVariables = {1}
    /\ Cardinality(compRes.set) > Cardinality(compInit) + 1
    /\ compRes.set # BwdClosure(graph, Vars, compInit)

\* The BFS form of a saturation reachability algorithm.
BfsForm(name) ==
    IF name = "ForwardReachability" THEN "ForwardReachabilityBfs"
    ELSE "BackwardReachabilityBfs"

\* C14: a completed saturation reachability computation, forward or backward,
\* returns the same set as the BFS computation of the same direction run to
\* completion on the same graph, active variables and initial set.
C14_SaturationEqualsBfs ==
    (Completed /\ driver \in {"ForwardReachability", "BackwardReachability"}) =>
        compRes.set = compute(ConfigureAlgorithm(BfsForm(driver), comp.context,
                                                 compInit)).set

C14_Witness ==
    /\ Completed
    /\ driver = "ForwardReachability"
    /\ 0 \in ActiveVariables
    /\ comp.steps >= 4
    /\ Cardinality(ColorsOf(compRes.set)) = 2

C6_TrapIsGreatestClosedSubset ==
    Completed =>
        /\ driver = "ForwardTrap" =>
              compRes.set = GreatestForwardClosed(graph, ActiveVariables, compInit)
        /\ driver = "BackwardTrap" =>
              compRes.set = GreatestBackwardClosed(graph, ActiveVariables, compInit)

C6_Witness ==
    /\ Completed
    /\ driver = "ForwardTrap"
    /\ ActiveVariables = Vars
    /\ compRes.set # {}
    /\ Cardinality(compRes.set) + 2 <= Cardinality(compInit)
    /\ compRes.set # GreatestBackwardClosed(graph, ActiveVariables, compInit)

\* C9: a try_compute call on an unfinished computation invokes the step
\* operator exactly once; a call on a finished computation returns the cached
\* output again and invokes no step.
C9_TryComputeStepsOnceThenCaches ==
    [][/\ compRes.tag # "Ready" => comp'.steps = comp.steps + 1
       /\ compRes.tag = "Ready" =>
            /\ comp'.steps = comp.steps
            /\ compRes' = compRes
            /\ compRes'.set = comp.output]_vars

C9_Witness ==
    /\ compCalls = MaxCallsAfterReady
    /\ compRes.tag = "Ready"
    /\ comp.steps >= 3
    /\ ~comp.hasState

(***************************************************************************)
(* Properties of the long-lived filter.                                    *)
(***************************************************************************)
\* C7: retain_long_lived keeps a colour of the candidate set exactly when for
\* every variable some state of that colour has no transition of the variable
\* leaving the candidate; kept colours are returned whole, the others removed
\* whole.
ColorIsSafe(c) ==
    \A v \in Vars : \E x \in candidate : x[2] = c /\ ~Leaves(graph, x, v, candidate)

C7_RetainLongLivedKeepsSafeColors ==
    driver = "done" =>
        filtered = {x \in candidate : ColorIsSafe(x[2])}

C7_Witness ==
    /\ driver = "done"
    /\ ColorsOf(candidate) = Colors
    /\ ColorsOf(filtered) = {2}
    /\ \E v \in Vars : \E x \in candidate : x[2] = 1 /\ ~Leaves(graph, x, v, candidate)

(***************************************************************************)
(* Properties of the budgets of the iteration skeletons.                   *)
(***************************************************************************)
\* One more iteration would take the counter past max_iterations.
NextWouldExceed == comp.state.iteration + 1 > comp.context.max_iterations

\* A step of a budgeted computation that has not completed before.
BudgetedStep == driver = "budget" /\ comp.hasState /\ comp'.steps = comp.steps + 1

IterationBudgetContract(tag) ==
    BudgetedStep =>
        IF NextWouldExceed
        THEN compRes' = CancelledBy(tag) /\ comp'.state = comp.state
        ELSE /\ compRes'.reason # tag
             /\ comp'.hasState => comp'.state.iteration = comp.state.iteration + 1

\* C11 (as stated): a step increments the iteration counter unless that would
\* take it past max_iterations, and then it returns Cancelled("max_iterations").
C11_CancelledWithTagMaxIterations == [][IterationBudgetContract("max_iterations")]_vars

\* C11 (amended): a step increments the iteration counter unless that would
\* take it past max_iterations; then it leaves the state alone and returns
\* Cancelled("ReachabilityConfig::max_iterations").
C11_IterationBudget ==
    [][IterationBudgetContract("ReachabilityConfig::max_iterations")]_vars

C11_Witness ==
    /\ driver = "budget"
    /\ compRes = CancelledBy("ReachabilityConfig::max_iterations")
    /\ comp.state.iteration = MaxIterationBudget
    /\ comp.context.max_iterations = MaxIterationBudget
    /\ comp.state.set # compInit

\* A step that changed the set of the computation.
MaterialUnited ==
    BudgetedStep /\ ~NextWouldExceed /\ comp'.hasState /\ comp'.state.set # comp.state.set

SizeBudgetContract(tag) ==
    MaterialUnited =>
        IF SymbolicSize(comp'.state.set) > comp.context.max_symbolic_size
        THEN compRes' = CancelledBy(tag)
        ELSE compRes' = Working

\* C12 (as stated): after new material has been united, the step returns
\* Cancelled("max_symbolic_size") if the set is larger than max_symbolic_size
\* and Working otherwise.
C12_CancelledWithTagMaxSymbolicSize == [][SizeBudgetContract("max_symbolic_size")]_vars

\* C12 (amended): the same with the reason
\* "ReachabilityConfig::max_symbolic_size".
C12_SizeBudget ==
    [][SizeBudgetContract("ReachabilityConfig::max_symbolic_size")]_vars

C12_Witness ==
    /\ driver = "budget"
    /\ compRes = CancelledBy("ReachabilityConfig::max_symbolic_size")
    /\ comp.state.set # compInit
    /\ SymbolicSize(compInit) <= comp.context.max_symbolic_size
    /\ SymbolicSize(comp.state.set) > comp.context.max_symbolic_size

\* A step that leaves the set at exactly the permitted size keeps working.
C12_WitnessWorking ==
    /\ driver = "budget"
    /\ compRes = Working
    /\ comp.state.set # compInit
    /\ SymbolicSize(comp.state.set) = comp.context.max_symbolic_size


\* No call has ended in an error.
EmptyNoError ==
    \A r \in {compRes, itgrRes, fbRes, fbColl, chRes, chColl, xbRes, xrRes} :
        r.tag # "Cancelled"

\* Whatever has been returned or emitted so far is empty.
EmptyOut ==
    /\ compRes.tag = "Ready" => compRes.set = {}
    /\ itgrRes.tag = "Ready" => itgrRes.set = {}
    /\ fbItems = <<>> /\ chItems = <<>> /\ xbItems = <<>> /\ xrItems = <<>>

\* What is left of the run ends within MaxRunCalls calls: the computation is
\* Ready with the empty set, the generators signal exhaustion and add no item.
NothingDrained(kind, ctx, state, items) ==
    Drain(kind, ctx, state, items, MaxRunCalls) = [exhausted |-> TRUE, items |-> <<>>]

EmptyRunEnds ==
    /\ driver = "budget" => compute(comp) = Ready({})
    /\ driver \in {"fwd_bwd", "chain"} =>
          /\ NothingDrained("fwd_bwd", Context, fb, fbItems)
          /\ NothingDrained("chain", Context, ch, chItems)
    /\ driver = "itgr" =>
          ItgrCompute(AttractorConfig(graph), itgr, MaxRunCalls) = Ready({})
    /\ driver = "xie_beerel_reduced" =>
          NothingDrained("xie_beerel",
                         ReducedConfig(graph, itgrRes.set, active_variables(itgr)),
                         xr, xrItems)
    /\ driver \in {"itgr", "xie_beerel_reduced", "xie_beerel"} =>
          NothingDrained("xie_beerel", AttractorConfig(graph), xb, xbItems)
    /\ driver \notin {"budget", "fwd_bwd", "chain", "itgr", "xie_beerel_reduced",
                      "xie_beerel"} =>
          /\ driver = "done"
          /\ {fbRes.tag, chRes.tag} = {"None"} \/ {xrRes.tag, xbRes.tag} = {"None"}

\* C16: started on the empty set, every algorithm terminates, no call ends in
\* Cancelled, the computations (reachability, traps, trimming, ITGR) return
\* the empty set and the generators signal exhaustion without emitting an item.
C16_EmptyInEmptyOut == EmptyNoError /\ EmptyOut /\ EmptyRunEnds

C16_Witness ==
    /\ driver = "done"
    /\ fb.to_process = <<>>
    /\ fbRes.tag = "None" /\ chRes.tag = "None"
    /\ fbItems = <<>> /\ chItems = <<>>
    /\ graph.en # {}

C16_WitnessComputation ==
    /\ driver = "budget"
    /\ compInit = EmptySet
    /\ compRes = Ready({})
    /\ graph.en # {}

C16_WitnessAttractors ==
    /\ driver = "done"
    /\ itgrRes = Ready({})
    /\ xrRes.tag = "None" /\ xbRes.tag = "None"
    /\ graph.en # {}

\* The generator polled, the result of its last call and its items so far.
PolledRes ==
    CASE driver = "poll_fwd_bwd" -> fbRes
      [] driver = "poll_chain" -> chRes
      [] driver = "poll_xie_beerel" -> xbRes
PolledItems ==
    CASE driver = "poll_fwd_bwd" -> fbItems
      [] driver = "poll_chain" -> chItems
      [] driver = "poll_xie_beerel" -> xbItems

ExhaustionStays ==
    (driver \in PollDrivers /\ Signalled(PolledRes)) =>
        /\ PolledRes'.tag \in {"None", "Working"}
        /\ PolledItems' = PolledItems

\* C17: once an SCC or attractor generator has returned Ready(None), every
\* later try_next call returns Ready(None) or Working, and the sequence of
\* emitted items no longer grows.
C17_ExhaustionIsStable == [][ExhaustionStays]_vars

C17_Witness ==
    /\ driver = "poll_fwd_bwd"
    /\ polls = MaxPolls
    /\ fbRes.tag = "None"
    /\ Len(fbItems) >= 1

C17_WitnessAttractors ==
    /\ driver = "poll_xie_beerel"
    /\ polls = MaxPolls
    /\ xbRes.tag = "None"
    /\ Len(xbItems) >= 2

\* The two objects as configured, before any call.
AloneComputation ==
    [res |-> NotCalled,
     comp |-> Configure(comp.skeleton, comp.op, comp.context, compInit)]
AloneGenerator ==
    [state |-> FwdBwdState(MkUnit(graph)), res |-> NotCalled, items |-> <<>>]

C13_WitnessComputation ==
    /\ restored
    /\ driver = "serde_computation"
    /\ compRes.tag = "Ready"
    /\ comp.steps >= 3
    /\ compRes.set # compInit

\* C20: when the enumeration is cut short by Cancelled, the command-line
\* program exits with status 0 only if it had already reached the requested
\* item count, and with a non-zero status otherwise.
CliReachedCount == cli.count > 0 /\ cli.enumerated >= cli.count

C20_CancelledShortExitsNonZero ==
    (cli.error /\ cli.exit # "none") =>
        /\ cli.summary
        /\ cli.exit = "0" <=> CliReachedCount

\* C18: the items of the forward-backward generator are a function of the
\* graph, the configuration and the initial set alone: they are the
\* components met when the worklist is handled as a stack (the universe
\* pushed last is decomposed first) around the pivot pick_vertex gives, in
\* that order.
RECURSIVE StackOrder(_, _)
StackDecomposed(ctx, rest, universe, bwd, fwd) ==
    LET scc == filter_scc(ctx, fwd \cap bwd)
    IN (IF scc # {} THEN <<scc>> ELSE <<>>)
       \o StackOrder(ctx, Push(Push(Push(rest, bwd \ fwd), fwd \ bwd),
                               (universe \ bwd) \ fwd))

StackPivoted(ctx, rest, universe, sub) ==
    IF universe = {} THEN StackOrder(ctx, rest)
    ELSE StackDecomposed(ctx, rest, universe,
             compute(BackwardReachability(sub, pick_vertex(universe))).set,
             compute(ForwardReachability(sub, pick_vertex(universe))).set)

StackTrimmed(ctx, rest, trimmed) ==
    IF trimmed = {} THEN StackOrder(ctx, rest)
    ELSE StackPivoted(ctx, rest, apply_long_lived_filter(ctx, trimmed),
             ReachabilityConfig(Restrict(ctx.graph,
                                         apply_long_lived_filter(ctx, trimmed))))

StackFiltered(ctx, rest, todo) ==
    IF todo = {} THEN StackOrder(ctx, rest)
    ELSE StackTrimmed(ctx, rest,
             compute(build_computation(ctx.should_trim, ctx.graph, todo)).set)

StackOrder(ctx, stack) ==
    IF stack = <<>> THEN <<>>
    ELSE StackFiltered(ctx, Pop(stack), apply_long_lived_filter(ctx, Last(stack)))

LiveTasks == ApplyDiscard(itgr).reductions
Resorted ==
    /\ driver = "itgr"
    /\ LiveTasks # <<>>
    /\ Last(LiveTasks).kind \notin {"BottomBasin", "ForwardBasin"}

\* The tasks the step left as they were: all but the advanced one.
KeptTasks == SubSeq(itgr'.reductions, 1, Len(LiveTasks) - 1)

TimesIn(seq, t) == Cardinality({i \in DOMAIN seq : seq[i] = t})
SameTasks(a, b) ==
    /\ Len(a) = Len(b)
    /\ \A i \in DOMAIN a : TimesIn(a, a[i]) = TimesIn(b, a[i])

AdvancedTasks == {i \in DOMAIN LiveTasks : SameTasks(RemoveAt(LiveTasks, i), KeptTasks)}

DescendingWeight(seq) ==
    \A i, j \in DOMAIN seq : i < j => weight(seq[i]) >= weight(seq[j])

LightestAdvanced ==
    Resorted =>
        /\ DescendingWeight(KeptTasks)
        /\ \E i \in AdvancedTasks :
              \A j \in DOMAIN LiveTasks : weight(LiveTasks[i]) <= weight(LiveTasks[j])

HeaviestAdvanced ==
    Resorted =>
        /\ DescendingWeight(KeptTasks)
        /\ \E i \in AdvancedTasks :
              \A j \in DOMAIN LiveTasks : weight(LiveTasks[i]) >= weight(LiveTasks[j])

C21_LightestTaskAdvanced == [][LightestAdvanced]_vars

\* The statement as claimed: the advanced task is a heaviest one.
C21_HeaviestTaskAdvanced == [][HeaviestAdvanced]_vars

\* After some steps ITGR holds several live tasks, the last is no basin task
\* and is heavier than the first: the coming step sorts the list and advances
\* another task than the one that was last.
C21_Witness ==
    /\ itgrRes.tag = "Working"
    /\ Resorted
    /\ Len(LiveTasks) >= 2
    /\ weight(Last(LiveTasks)) > weight(LiveTasks[1])

\* C22: at every step of ITGR, remaining_set is forward-closed in the original
\* graph: no state of it has a transition to a state outside it.
C22_RemainingSetForwardClosed ==
    driver \in {"itgr", "xie_beerel_reduced"} =>
        /\ is_forward_closed(graph, itgr.remaining_set)
        /\ \A e \in graph.en :
              <<e[1], e[2]>> \in itgr.remaining_set
                  => <<Flip(e[1], e[3]), e[2]>> \in itgr.remaining_set

\* A discard has just been subtracted and states with incoming transitions
\* from outside remain.
C22_Witness ==
    /\ driver = "itgr" /\ itgrRes.tag = "Working"
    /\ itgr.to_discard = {}
    /\ itgr.remaining_set # {}
    /\ itgr.remaining_set # MkUnit(graph)
    /\ itgr.reductions # <<>>
    /\ \E e \in graph.en :
          /\ <<e[1], e[2]>> \notin itgr.remaining_set
          /\ <<Flip(e[1], e[3]), e[2]>> \in itgr.remaining_set

\* C23: for every processed universe and every colour of the pivot, the raw
\* component the decomposition computes (forward /\ backward in the
\* forward-backward generator, forward reachability inside the basin in the
\* chain generator) is the strongly connected component of the pivot in the
\* original graph.
\* The step that ends a decomposition keeps no pivot: in the forward-backward
\* generator it is pick_vertex of the universe; in the chain generator it is
\* the set the forward search was started from, one step earlier.
PivotSccs(pivot) == UNION {SccOf(graph, x) : x \in pivot}

SccPerColor(raw) == \A x \in raw : SccOf(graph, x) = {y \in raw : y[2] = x[2]}

FbDecomposing ==
    /\ driver = "fwd_bwd"
    /\ fb.computing.phase = "Forward"
    /\ fb'.computing.phase = "Idle"

ChSearching ==
    /\ driver = "chain"
    /\ ch.computing.phase = "Basin"
    /\ ch'.computing.phase = "Scc"

ChDecomposing ==
    /\ driver = "chain"
    /\ ch.computing.phase = "Scc"
    /\ ch'.computing.phase = "Idle"

FbRawScc == try_compute(fb.computing.comp, cancel).res.set \cap fb.computing.backward
ChRawScc == try_compute(ch.computing.comp, cancel).res.set

RawSccIsPivotScc ==
    /\ FbDecomposing => FbRawScc = PivotSccs(pick_vertex(fb.computing.universe))
    /\ ChSearching =>
          /\ ch'.computing.comp.state.set = ch.computing.pivot
          /\ ColorsOf(ch'.computing.basin) = ColorsOf(ch.computing.pivot)
          /\ \A c \in Colors : Cardinality(Slice(ch.computing.pivot, c)) <= 1
    /\ ChDecomposing =>
          /\ ch.computing.comp.state.set \subseteq ChRawScc
          /\ ColorsOf(ChRawScc) = ColorsOf(ch.computing.basin)
          /\ SccPerColor(ChRawScc)

C23_RawSccIsSccOfPivot == [][RawSccIsPivotScc]_vars

\* The chain generator is about to finish a decomposition of a universe that
\* is smaller than the state space, around a pivot with both colours whose
\* component is larger in one colour than in the other.
C23_Witness ==
    /\ driver = "chain"
    /\ ch.computing.phase = "Scc"
    /\ try_compute(ch.computing.comp, cancel).res.tag = "Ready"
    /\ ch.computing.universe # MkUnit(graph)
    /\ ColorsOf(ChRawScc) = Colors
    /\ Cardinality(Slice(ChRawScc, 1)) > Cardinality(Slice(ChRawScc, 2))
    /\ Cardinality(Slice(ChRawScc, 2)) >= 2

C23_WitnessFwdBwd ==
    /\ driver = "fwd_bwd"
    /\ fb.computing.phase = "Forward"
    /\ try_compute(fb.computing.comp, cancel).res.tag = "Ready"
    /\ fb.computing.universe # MkUnit(graph)
    /\ Cardinality(FbRawScc) >= 2
    /\ FbRawScc # try_compute(fb.computing.comp, cancel).res.set

\* C24: every non-trivial SCC that has not been emitted lies entirely inside
\* exactly one universe of the worklist or the universe being processed, and
\* no universe holds only a part of an SCC.  With the long-lived filter on
\* this holds of the long-lived SCCs only: the filter removes the others.
CurrentSet(computing) ==
    IF computing.phase = "Trimming" THEN computing.comp.state.set ELSE computing.universe

FbUniverses ==
    IF fb.computing.phase = "Idle" THEN fb.to_process
    ELSE Append(fb.to_process, CurrentSet(fb.computing))

ChUniverses ==
    LET queued == [i \in DOMAIN ch.to_process |-> ch.to_process[i].full_universe]
    IN IF ch.computing.phase = "Idle" THEN queued
       ELSE Append(queued, CurrentSet(ch.computing))

HeldBy(universes, C) == Cardinality({i \in DOMAIN universes : C \subseteq universes[i]})

WholeSccs(all, universes) ==
    \A i \in DOMAIN universes : \A C \in all :
        C \cap universes[i] = {} \/ C \subseteq universes[i]

InOneUniverse(sccs, universes, items) ==
    \A C \in sccs :
        HeldBy(universes, C) = IF \E i \in DOMAIN items : C \subseteq items[i] THEN 0 ELSE 1

SccsKeptWhole(all, sccs) ==
    /\ driver = "fwd_bwd" =>
          WholeSccs(all, FbUniverses) /\ InOneUniverse(sccs, FbUniverses, fbItems)
    /\ driver = "chain" =>
          WholeSccs(all, ChUniverses) /\ InOneUniverse(sccs, ChUniverses, chItems)

\* The SCCs a run is to emit: the non-trivial ones, with the filter on the
\* long-lived ones among them.
Emittable(all, long_lived) ==
    {C \in all : Cardinality(C) >= 2 /\ (long_lived => IsLongLived(graph, C))}

PendingSccsKeptWhole(all) ==
    SccsKeptWhole(all, Emittable(all, sccConfig.filter_long_lived))

EveryPendingSccKeptWhole(all) == SccsKeptWhole(all, Emittable(all, FALSE))

C24_PendingSccsKeptWhole ==
    driver \in {"fwd_bwd", "chain"} => PendingSccsKeptWhole(AllSccs(graph))

\* The statement as claimed: of every non-trivial SCC, under every
\* configuration.
C24_EveryPendingSccKeptWhole ==
    driver \in {"fwd_bwd", "chain"} => EveryPendingSccKeptWhole(AllSccs(graph))

\* Two universes wait on the worklist of the forward-backward generator, each
\* with a non-trivial SCC that has not been emitted.
C24_Witness ==
    /\ driver = "fwd_bwd"
    /\ fb.computing.phase = "Idle"
    /\ Len(fb.to_process) >= 2
    /\ \E C \in NonTrivialSccs(graph) : C \subseteq fb.to_process[1]
    /\ \E C \in NonTrivialSccs(graph) : C \subseteq fb.to_process[2]

\* The chain generator has emitted an item and holds a non-trivial SCC in a
\* pushed-back universe.
C24_WitnessChain ==
    /\ driver = "chain"
    /\ ch.computing.phase = "Idle"
    /\ Len(chItems) >= 1
    /\ \E i \in DOMAIN ch.to_process : \E C \in NonTrivialSccs(graph) :
          C \subseteq ch.to_process[i].full_universe

\* C25: a decomposition splits the trimmed universe U' into the raw SCC and
\* the pieces it pushes: in the forward-backward generator the non-empty ones
\* of B \ F, F \ B and U' \ (F \cup B), in the chain generator those of B \ C
\* and U' \ B, in this order on top of the worklist as it was; the raw SCC
\* and the pushed pieces are pairwise disjoint and their union is U'.
NonEmptyOf(pieces) == SelectSeq(pieces, LAMBDA S : S # {})

Partitions(U, raw, pushed) ==
    /\ raw \cup UNION {pushed[i] : i \in DOMAIN pushed} = U
    /\ \A i \in DOMAIN pushed : pushed[i] # {} /\ pushed[i] \cap raw = {}
    /\ \A i, j \in DOMAIN pushed : i # j => pushed[i] \cap pushed[j] = {}

FbForward == try_compute(fb.computing.comp, cancel).res.set

FbPieces ==
    <<fb.computing.backward \ FbForward,
      FbForward \ fb.computing.backward,
      fb.computing.universe \ (FbForward \cup fb.computing.backward)>>

ChPieces ==
    <<ch.computing.basin \ ChRawScc, ch.computing.universe \ ch.computing.basin>>

ChQueued(stack) == [i \in DOMAIN stack |-> stack[i].full_universe]

DecompositionPartitions ==
    /\ FbDecomposing =>
          /\ fb'.to_process = fb.to_process \o NonEmptyOf(FbPieces)
          /\ Partitions(fb.computing.universe, FbRawScc, NonEmptyOf(FbPieces))
    /\ ChDecomposing =>
          /\ ChQueued(ch'.to_process) = ChQueued(ch.to_process) \o NonEmptyOf(ChPieces)
          /\ SubSeq(ch'.to_process, 1, Len(ch.to_process)) = ch.to_process
          /\ Partitions(ch.computing.universe, ChRawScc, NonEmptyOf(ChPieces))

C25_DecompositionPartitions == [][DecompositionPartitions]_vars

\* The chain generator is about to split a universe around a pivot that lacks
\* one of the universe's colours: that colour goes to the rest in full, and
\* both pieces are non-empty.
C25_Witness ==
    /\ driver = "chain"
    /\ ch.computing.phase = "Scc"
    /\ try_compute(ch.computing.comp, cancel).res.tag = "Ready"
    /\ ColorsOf(ch.computing.universe) = Colors
    /\ ColorsOf(ch.computing.basin) # Colors
    /\ Len(NonEmptyOf(ChPieces)) = 2

\* The forward-backward generator is about to push three pieces.
C25_WitnessFwdBwd ==
    /\ driver = "fwd_bwd"
    /\ fb.computing.phase = "Forward"
    /\ try_compute(fb.computing.comp, cancel).res.tag = "Ready"
    /\ Len(NonEmptyOf(FbPieces)) = 3

\* C26: without cancellation the forward-backward and the chain generator
\* signal exhaustion after finitely many calls: every call but the one that
\* signals exhaustion lowers a natural number (the states held in universes,
\* then the phases they still have to pass, then the states the running
\* reachability has not decided), and that call finds nothing left.  Every
\* universe a decomposition pushes is strictly smaller than the universe that
\* was popped and holds nothing of the pivot's SCC, which is not empty.
PhasesLeft(phase) ==
    CASE phase = "Idle" -> 0
      [] phase = "Trimming" -> 3
      [] phase \in {"Backward", "Basin"} -> 2
      [] phase \in {"Forward", "Scc"} -> 1

Undecided(computing) ==
    IF computing.phase \in {"Idle", "Trimming"} THEN 0
    ELSE Cardinality(computing.universe) - Cardinality(computing.comp.state.set)

Rank(universes, queued, computing) ==
    Cardinality(UNION {universes[i] : i \in DOMAIN universes}) * 1000
    + (4 * queued + PhasesLeft(computing.phase)) * 10
    + Undecided(computing)

FbRank == Rank(FbUniverses, Len(fb.to_process), fb.computing)
ChRank == Rank(ChUniverses, Len(ch.to_process), ch.computing)

RankFalls ==
    /\ driver = "fwd_bwd" =>
          /\ FbRank \in Nat
          /\ IF fbRes'.tag = "None" THEN FbRank = 0 ELSE FbRank' < FbRank
    /\ driver = "chain" =>
          /\ ChRank \in Nat
          /\ IF chRes'.tag = "None" THEN ChRank = 0 ELSE ChRank' < ChRank

StrictlySmaller(popped, raw, pushed) ==
    /\ raw # {}
    /\ raw \subseteq popped
    /\ \A i \in DOMAIN pushed :
          pushed[i] \subseteq popped /\ pushed[i] # popped /\ pushed[i] \cap raw = {}

PiecesShrink ==
    /\ FbDecomposing =>
          StrictlySmaller(fb.computing.universe, FbRawScc,
              SubSeq(fb'.to_process, Len(fb.to_process) + 1, Len(fb'.to_process)))
    /\ ChDecomposing =>
          StrictlySmaller(ch.computing.universe, ChRawScc,
              SubSeq(ChQueued(ch'.to_process), Len(ch.to_process) + 1,
                     Len(ch'.to_process)))

C26_GeneratorsTerminate == [][PiecesShrink /\ RankFalls]_vars

\* Both generators have signalled exhaustion after decompositions that
\* pushed pieces back and gave two items each.
C26_Witness ==
    /\ ChainExhausted
    /\ Len(fbItems) >= 2
    /\ Len(chItems) >= 2

\* C27: without cancellation the Xie-Beerel generator signals exhaustion
\* after finitely many calls: every call but the one that signals exhaustion
\* lowers a natural number (the size of `remaining`, then the phases of the
\* round, then what the running search has not decided); `remaining` never
\* grows, and the call that ends a round takes out of it a basin that holds
\* the pivot in every colour of `remaining`, so it shrinks in every round.
CandidateUndecided(attractor) ==
    Cardinality(ColorsOf(attractor)) * (Cardinality(States) + 1)
    - Cardinality(attractor)

XbUndecided(state) ==
    CASE state.computing.phase = "Idle" -> 0
      [] state.computing.phase = "Basin" ->
            Cardinality(state.remaining) - Cardinality(state.computing.comp.state.set)
      [] state.computing.phase = "Attractor" ->
            CandidateUndecided(state.computing.attractor)

XbPhasesLeft(phase) ==
    CASE phase = "Idle" -> 3 [] phase = "Basin" -> 2 [] phase = "Attractor" -> 1

XbRank(state) ==
    Cardinality(state.remaining) * 1000
    + XbPhasesLeft(state.computing.phase) * 100
    + XbUndecided(state)

RoundEnds(before, after) ==
    before.computing.phase = "Attractor" /\ after.computing.phase = "Idle"

XbCalled(before, after, res) ==
    /\ XbRank(before) \in Nat
    /\ XbUndecided(before) \in 0..99
    /\ after.remaining \subseteq before.remaining
    /\ IF res.tag = "None" THEN before.remaining = {}
       ELSE XbRank(after) < XbRank(before)
    /\ RoundEnds(before, after) =>
          /\ after.remaining = before.remaining \ before.computing.basin
          /\ after.remaining # before.remaining
          /\ pick_vertex(before.remaining) \subseteq before.computing.basin
          /\ ColorsOf(pick_vertex(before.remaining)) = ColorsOf(before.remaining)

XieBeerelRankFalls ==
    /\ driver = "xie_beerel" => XbCalled(xb, xb', xbRes')
    /\ driver = "xie_beerel_reduced" => XbCalled(xr, xr', xrRes')

C27_XieBeerelTerminates == [][XieBeerelRankFalls]_vars

\* Xie-Beerel on the whole graph has signalled exhaustion after several
\* rounds, one of them around a pivot whose candidate lost a colour.
C27_Witness ==
    /\ driver = "done"
    /\ xbRes.tag = "None"
    /\ xb.remaining = {}
    /\ Len(xbItems) >= 2
    /\ \E i \in DOMAIN xbItems : ColorsOf(xbItems[i]) # Colors

\* C28: without cancellation ITGR returns Ready(remaining_set) after finitely
\* many steps: every step but the one that returns Ready lowers a natural
\* number (the size of remaining_set, then the tasks still to be spawned and
\* finished, then what the live tasks have not decided).  Ready is returned
\* only with the reductions stack empty and no discard pending, and every
\* scheduled discard is subtracted by the step that follows.
TasksLeft(kind) ==
    CASE kind = "Forward" -> 4
      [] kind = "Extended" -> 2
      [] kind \in {"ForwardBasin", "BottomBasin"} -> 1

TaskSet(t) ==
    CASE t.kind = "Forward" -> t.forward
      [] t.kind = "Extended" -> t.extended_component
      [] t.kind \in {"ForwardBasin", "BottomBasin"} -> t.basin

TaskRank(t) ==
    TasksLeft(t.kind) * 20 + (Cardinality(AllVertices) - Cardinality(TaskSet(t)))

RECURSIVE SumOfRanks(_)
SumOfRanks(tasks) ==
    IF tasks = <<>> THEN 0 ELSE TaskRank(Head(tasks)) + SumOfRanks(Tail(tasks))

ItgrRank(state) ==
    Cardinality(state.remaining_set) * 1000
    + SumOfRanks(state.reductions)

ItgrCalled(before, after, res) ==
    /\ SumOfRanks(before.reductions) \in 0..999
    /\ after.remaining_set = before.remaining_set \ before.to_discard
    /\ before.to_discard \subseteq before.remaining_set
    /\ IF res.tag = "Ready"
       THEN /\ after.reductions = <<>>
            /\ after.to_discard = {}
            /\ res.set = after.remaining_set
       ELSE ItgrRank(after) < ItgrRank(before)

ItgrRankFalls == driver = "itgr" => ItgrCalled(itgr, itgr', itgrRes')

C28_ItgrTerminates == [][ItgrRankFalls]_vars

\* ITGR has returned a set smaller than the state space: the last task to
\* finish scheduled a discard, and the step that returned Ready subtracted it.
C28_Witness ==
    /\ driver = "xie_beerel_reduced"
    /\ itgrRes.tag = "Ready"
    /\ itgrRes.set # MkUnit(graph)
    /\ itgrRes.set # {}
    /\ xrRes = NotCalled

\* C29: in every colour of the pivot, the candidate that a Xie-Beerel round
\* ends with is non-empty exactly when the set forward-reachable from the
\* pivot in that colour stays inside the basin B, and it is then that forward
\* set; the round's result is the candidate, or Working when it is empty.  A
\* growth step empties the candidate only in colours whose forward set leaves
\* B, and in every other colour it keeps the candidate's states and grows
\* inside B and inside the forward set.
PivotForward(ctx, pivot, c) ==
    FwdClosure(ctx.graph, ctx.active_variables, IntersectColors(pivot, {c}))

StaysInBasin(ctx, pivot, basin, c) == PivotForward(ctx, pivot, c) \subseteq basin

CandidateDecided(ctx, pivot, basin, attractor) ==
    \A c \in ColorsOf(pivot) :
        IF StaysInBasin(ctx, pivot, basin, c)
        THEN IntersectColors(attractor, {c}) = PivotForward(ctx, pivot, c)
        ELSE IntersectColors(attractor, {c}) = {}

CandidateGrown(ctx, pivot, basin, old, new) ==
    \A c \in ColorsOf(pivot) :
        IF IntersectColors(new, {c}) = {}
        THEN IntersectColors(old, {c}) = {} \/ ~StaysInBasin(ctx, pivot, basin, c)
        ELSE /\ IntersectColors(old, {c}) \subseteq IntersectColors(new, {c})
             /\ IntersectColors(new, {c}) \subseteq basin
             /\ IntersectColors(new, {c}) \subseteq PivotForward(ctx, pivot, c)

XbAttractorStep(ctx, before, after, res) ==
    before.computing.phase = "Attractor" =>
        IF after.computing.phase = "Idle"
        THEN /\ CandidateDecided(ctx, pick_vertex(before.remaining),
                                 before.computing.basin, before.computing.attractor)
             /\ res = IF before.computing.attractor = {} THEN Working
                      ELSE Item(before.computing.attractor)
        ELSE CandidateGrown(ctx, pick_vertex(before.remaining),
                            before.computing.basin, before.computing.attractor,
                            after.computing.attractor)

EscapedColorsRemoved ==
    /\ driver = "xie_beerel" => XbAttractorStep(AttractorConfig(graph), xb, xb', xbRes')
    /\ driver = "xie_beerel_reduced" =>
          XbAttractorStep(ReducedConfig(graph, itgrRes.set, active_variables(itgr)),
                          xr, xr', xrRes')

C29_EscapedColorsRemoved == [][EscapedColorsRemoved]_vars

\* A round has ended with a candidate that kept one colour of the pivot and
\* lost the other: the emitted attractor does not span the pivot's colours.
C29_Witness ==
    /\ driver = "xie_beerel"
    /\ xbRes.tag = "Item"
    /\ xb.computing.phase = "Idle"
    /\ ColorsOf(xbRes.set) # Colors
    /\ Len(xbItems) = 1

\* C30: when a generator decomposes a universe around a raw SCC, the colours
\* in which the raw SCC is a single state never reach the item, and without
\* the long-lived filter the item is the raw SCC in all its other colours,
\* every state kept (with the filter on, the item is that set in some of its
\* colours).  When nothing is left the step returns Working and the emitted
\* items are unchanged.
TrivialColors(raw) == {c \in ColorsOf(raw) : Cardinality(Slice(raw, c)) = 1}

NonTrivialPart(raw) == {x \in raw : x[2] \notin TrivialColors(raw)}

TrivialColorsStripped(long_lived, raw, res, before, after) ==
    /\ IF res.tag = "Item"
       THEN /\ res.set # {}
            /\ after = Append(before, res.set)
            /\ ColorsOf(res.set) \cap TrivialColors(raw) = {}
            /\ res.set = {x \in NonTrivialPart(raw) : x[2] \in ColorsOf(res.set)}
       ELSE /\ res = Working
            /\ after = before
    /\ ~long_lived =>
          IF NonTrivialPart(raw) = {} THEN res = Working
          ELSE res = Item(NonTrivialPart(raw))

TrivialColorRemoval ==
    /\ FbDecomposing =>
          TrivialColorsStripped(sccConfig.filter_long_lived, FbRawScc,
                                fbRes', fbItems, fbItems')
    /\ ChDecomposing =>
          TrivialColorsStripped(sccConfig.filter_long_lived, ChRawScc,
                                chRes', chItems, chItems')

C30_TrivialColorsStripped == [][TrivialColorRemoval]_vars

\* Without the long-lived filter, forward-backward has emitted an item that
\* lacks a colour, and is between universes after a step that emitted nothing.
C30_Witness ==
    /\ driver = "fwd_bwd"
    /\ ~sccConfig.filter_long_lived
    /\ fb.computing.phase = "Idle"
    /\ fbRes = Working
    /\ Len(fbItems) >= 1
    /\ \E i \in DOMAIN fbItems : ColorsOf(fbItems[i]) # Colors

(***************************************************************************)
(* Properties of trimming.                                                 *)
(***************************************************************************)
\* C31: under every trim setting, the set a generator gets back from
\* trimming a universe U is a subset of U that holds every state of every
\* non-trivial SCC of the sub-graph induced by U; what is removed are states
\* that are an SCC on their own.  For the chain generator this holds of the
\* current set all through the trimming, too.
NonTrivialStates(U) == {x \in U : SccOf(Restrict(graph, U), x) # {x}}

TrimKeepsSccs(U, trimmed) ==
    /\ trimmed \subseteq U
    /\ NonTrivialStates(U) \subseteq trimmed

FbPopping == driver = "fwd_bwd" /\ fb.computing.phase = "Idle" /\ fb.to_process # <<>>

FbTrimmedUniverse ==
    compute(build_computation(sccConfig.should_trim, graph,
                              apply_long_lived_filter(Context, Last(fb.to_process)))).set

ChTrimming == driver = "chain" /\ ch.computing.phase = "Trimming"

TrimmingKeepsSccs ==
    /\ FbPopping =>
          /\ TrimKeepsSccs(apply_long_lived_filter(Context, Last(fb.to_process)),
                           FbTrimmedUniverse)
          /\ fb'.computing.phase = "Trimming" =>
                compute(fb'.computing.comp).set = FbTrimmedUniverse
    /\ ChTrimming =>
          /\ TrimKeepsSccs(ch.computing.full_universe, ch.computing.comp.state.set)
          /\ TrimKeepsSccs(ch.computing.full_universe,
                           try_compute(ch.computing.comp, cancel).comp.state.set
                               \cup try_compute(ch.computing.comp, cancel).comp.output)

C31_TrimmingKeepsSccs == [][TrimmingKeepsSccs]_vars

\* The chain generator is trimming sinks only, and has already removed a
\* state from a universe that holds a non-trivial SCC.
C31_Witness ==
    /\ ChTrimming
    /\ sccConfig.should_trim = "Sinks"
    /\ ch.computing.comp.state.set # ch.computing.full_universe
    /\ NonTrivialStates(ch.computing.full_universe) # {}

\* C32: a step of TrimSinksAndSources removes the relative sources of the
\* current set when it has any, and its relative sinks only when it has no
\* source; the computation completes exactly when the current set has neither.
SourcesOf(S) ==
    {x \in S : \A v \in Vars : ~(Fires(graph, Succ(x, v), v) /\ Succ(x, v) \in S)}

SinksOf(S) ==
    {x \in S : \A v \in Vars : ~(Fires(graph, x, v) /\ Succ(x, v) \in S)}

SourcesThenSinks(S) == IF SourcesOf(S) # {} THEN SourcesOf(S) ELSE SinksOf(S)

TrimsBoth(computing) ==
    /\ computing.phase = "Trimming"
    /\ computing.comp.op = "RelativeSinksAndSources"

SourcesFirst(before, after) ==
    IF SourcesThenSinks(before.comp.state.set) = {}
    THEN after.phase # "Trimming"
    ELSE /\ after.phase = "Trimming"
         /\ after.comp.state.set
                = before.comp.state.set \ SourcesThenSinks(before.comp.state.set)

SourcesBeforeSinks ==
    /\ (driver = "fwd_bwd" /\ TrimsBoth(fb.computing))
          => SourcesFirst(fb.computing, fb'.computing)
    /\ (driver = "chain" /\ TrimsBoth(ch.computing))
          => SourcesFirst(ch.computing, ch'.computing)

FiresWithin(v, S) == \E x \in S : Fires(graph, x, v) /\ Succ(x, v) \in S

C33_InactiveVariablesCannotFire ==
    driver \in {"itgr", "xie_beerel_reduced"} =>
        /\ active_variables(itgr) \subseteq GraphVariables
        /\ \A v \in GraphVariables \ active_variables(itgr) :
              ~FiresWithin(v, itgr.remaining_set)
        /\ itgrRes.tag = "Ready" => itgrRes.set = itgr.remaining_set

\* ITGR has completed with a non-empty set in which one variable still
\* fires, having dropped a variable that has transitions in the graph.
C33_Witness ==
    /\ driver = "xie_beerel_reduced"
    /\ itgrRes.tag = "Ready"
    /\ \E v \in active_variables(itgr) : FiresWithin(v, itgrRes.set)
    /\ \E v \in GraphVariables \ active_variables(itgr) : FiresWithin(v, MkUnit(graph))

(***************************************************************************)
(* Properties of budgets and cancellation.                                 *)
(***************************************************************************)
\* C34: once try_compute has returned Cancelled because a budget was
\* exceeded, every later try_compute on the same computation returns
\* Cancelled.
RetriedAfterCancelled == driver = "budget" /\ compRes.tag = "Cancelled"

CancelledStays == RetriedAfterCancelled => compRes'.tag = "Cancelled"

C34_BudgetCancellationIsFinal == [][CancelledStays]_vars

\* C35 (as claimed): with the cancellation flag set, a step of a
\* reachability, trap or trimming computation returns Cancelled and leaves
\* the current set unchanged, whatever the active-variable set is.
StepUnderFlag == driver = "budget" /\ cancel /\ comp.hasState

StepCancelled ==
    /\ compRes' = CancelledBy("cancelled")
    /\ comp'.hasState
    /\ comp'.state.set = comp.state.set

C35_FlagCancelsEveryStep == [][StepUnderFlag => StepCancelled]_vars

\* C35 (amended): the same, provided the active-variable set is not empty.
C35_FlagCancelsStep ==
    [][(StepUnderFlag /\ comp.context.variables # {}) => StepCancelled]_vars

\* A trimming computation over one of the two variables, on a set that has a
\* sink under that variable, has been cancelled by the flag: its set is still
\* the initial one.
C35_Witness ==
    /\ driver = "budget"
    /\ cancel
    /\ compRes = CancelledBy("cancelled")
    /\ comp.op = "RelativeSinks"
    /\ Cardinality(comp.context.variables) = 1
    /\ comp.state.set = compInit
    /\ RelativeSinks(comp.context, comp.state.set, FALSE).set # {}

\* C36: with max_iterations = N and no size budget, a computation whose
\* unbudgeted run detects its fixed point in call K returns Ready in call K
\* when K <= N and is never cancelled; when K > N, calls 1..N return Working
\* and call N+1 returns Cancelled, leaving the counter at N and the set as
\* call N left it.  The counter never exceeds N.
RECURSIVE CallsUntilReady(_)
CallsUntilReady(c) ==
    IF try_compute(c, FALSE).res.tag = "Ready" THEN 1
    ELSE 1 + CallsUntilReady(try_compute(c, FALSE).comp)

\* The computation of the current run as configured, without its budgets.
Unbudgeted ==
    Configure(comp.skeleton, comp.op,
              [comp.context EXCEPT !.max_iterations = Unlimited,
                                   !.max_symbolic_size = Unlimited],
              compInit)

IterationBudgetOnly ==
    /\ driver = "budget"
    /\ comp.context.max_iterations # Unlimited
    /\ comp.context.max_symbolic_size = Unlimited

BudgetOutcome(c, res, N, K) ==
    /\ c.hasState => c.state.iteration <= N
    /\ res.tag = "Ready" => K <= N /\ c.steps = K
    /\ res.tag = "Working" => c.steps < K /\ c.steps <= N /\ c.state.iteration = c.steps
    /\ res.tag = "Cancelled" =>
          /\ K > N
          /\ c.steps = N + 1
          /\ c.state.iteration = N
          /\ res = CancelledBy("ReachabilityConfig::max_iterations")

IterationBudgetDecides ==
    IterationBudgetOnly =>
        /\ BudgetOutcome(comp', compRes', comp.context.max_iterations,
                         CallsUntilReady(Unbudgeted))
        /\ compRes'.tag = "Cancelled" => comp'.state = comp.state

C36_IterationBudgetDecides == [][IterationBudgetDecides]_vars

\* A computation has completed in exactly as many calls as its budget
\* allows, the last of them the one that found nothing new.
C36_Witness ==
    /\ IterationBudgetOnly
    /\ compRes.tag = "Ready"
    /\ comp.context.max_iterations = MaxIterationBudget
    /\ comp.steps = MaxIterationBudget
    /\ compRes.set # compInit

\* C37: a step of saturation reachability adds var_post_out(v, S) (backward:
\* var_pre_out(v, S)) for the greatest active variable v for which that set
\* is not empty, and nothing else; it finds nothing, and the computation
\* completes, only when the set is empty for every active variable.
NewUnder(backward, v, S) ==
    IF backward THEN VarPreOut(graph, v, S) ELSE VarPostOut(graph, v, S)

Productive(backward, S) == {v \in ActiveVariables : NewUnder(backward, v, S) # {}}

GreatestProductive(backward, S) ==
    IF Productive(backward, S) = {} THEN {}
    ELSE NewUnder(backward, MaxOf(Productive(backward, S)), S)

SaturationStep(backward) ==
    IF GreatestProductive(backward, comp.state.set) = {}
    THEN compRes' = Ready(comp.state.set)
    ELSE /\ compRes' = Working
         /\ comp'.state.set \ comp.state.set = GreatestProductive(backward, comp.state.set)
         /\ comp.state.set \subseteq comp'.state.set

GreatestVariableFirst ==
    /\ (driver = "ForwardReachability" /\ comp.hasState) => SaturationStep(FALSE)
    /\ (driver = "BackwardReachability" /\ comp.hasState) => SaturationStep(TRUE)

C37_GreatestVariableFirst == [][GreatestVariableFirst]_vars

\* Forward saturation has taken its first step from a set out of which both
\* variables lead, to different states: the set has grown by the successors
\* under the greater variable only.
C37_Witness ==
    /\ driver = "ForwardReachability"
    /\ comp.hasState
    /\ compRes = Working
    /\ comp.state.iteration = 1
    /\ Productive(FALSE, compInit) = Vars
    /\ VarPostOut(graph, 0, compInit) # VarPostOut(graph, 1, compInit)
    /\ comp.state.set = compInit \cup VarPostOut(graph, 1, compInit)

\* C38 (as claimed): BackwardTrap is built from HasSuccessorSaturation,
\* subtracts states that have a successor outside the current set and yields
\* the greatest forward-closed subset of the initial set; ForwardTrap is built
\* from HasPredecessorSaturation and yields the greatest backward-closed
\* subset.
HasSuccessorOutside(S) ==
    {x \in S : \E v \in ActiveVariables : Fires(graph, x, v) /\ Succ(x, v) \notin S}

HasPredecessorOutside(S) ==
    {x \in S : \E v \in ActiveVariables :
                  Fires(graph, Succ(x, v), v) /\ Succ(x, v) \notin S}

\* One try_compute of a trap computation built from `op`: it subtracts some
\* of the states `leaving`, at least one when there are any, and otherwise
\* completes with `greatest`.
TrapStep(op, leaving, greatest) ==
    /\ comp.op = op
    /\ IF leaving = {}
       THEN compRes' = Ready(comp.state.set) /\ comp.state.set = greatest
       ELSE /\ compRes' = Working
            /\ comp'.state.set \subseteq comp.state.set
            /\ comp'.state.set # comp.state.set
            /\ comp.state.set \ comp'.state.set \subseteq leaving

TrapBuiltFrom(forward_trap_op, backward_trap_op) ==
    /\ (driver = "ForwardTrap" /\ comp.hasState) =>
          IF forward_trap_op = "HasSuccessorSaturation"
          THEN TrapStep(forward_trap_op, HasSuccessorOutside(comp.state.set),
                        GreatestForwardClosed(graph, ActiveVariables, compInit))
          ELSE TrapStep(forward_trap_op, HasPredecessorOutside(comp.state.set),
                        GreatestBackwardClosed(graph, ActiveVariables, compInit))
    /\ (driver = "BackwardTrap" /\ comp.hasState) =>
          IF backward_trap_op = "HasSuccessorSaturation"
          THEN TrapStep(backward_trap_op, HasSuccessorOutside(comp.state.set),
                        GreatestForwardClosed(graph, ActiveVariables, compInit))
          ELSE TrapStep(backward_trap_op, HasPredecessorOutside(comp.state.set),
                        GreatestBackwardClosed(graph, ActiveVariables, compInit))

C38_BackwardTrapOnSuccessors ==
    [][TrapBuiltFrom("HasPredecessorSaturation", "HasSuccessorSaturation")]_vars

\* C38 (amended): the names the other way round.  ForwardTrap is the one built
\* from HasSuccessorSaturation (greatest forward-closed subset), BackwardTrap
\* the one built from HasPredecessorSaturation (greatest backward-closed
\* subset).
C38_ForwardTrapOnSuccessors ==
    [][TrapBuiltFrom("HasSuccessorSaturation", "HasPredecessorSaturation")]_vars

\* A BackwardTrap over both variables has completed with a proper subset of
\* its initial set that is not the greatest forward-closed one.
C38_Witness ==
    /\ Completed
    /\ driver = "BackwardTrap"
    /\ ActiveVariables = Vars
    /\ compRes.set # {}
    /\ compRes.set # compInit
    /\ compRes.set # GreatestForwardClosed(graph, ActiveVariables, compInit)

\* C39: in every Extended task of ITGR the extended component is a subset
\* of the forward set, the forward set a subset of remaining_set, and the
\* task's graph is the given graph restricted to the forward set: when the
\* task is spawned, after each of its steps and after a discard.  When the
\* task finishes, the extended component is the backward closure, inside the
\* forward set, of the states of it where the task's variable can fire, and
\* the bottom it hands on is the rest of the forward set.
TasksOf(state, kind) ==
    {state.reductions[i] : i \in {j \in DOMAIN state.reductions :
                                      state.reductions[j].kind = kind}}

ExtendedWithinForward(state) ==
    \A t \in TasksOf(state, "Extended") :
        /\ t.extended_component \subseteq t.forward
        /\ t.forward \subseteq state.remaining_set
        /\ t.universe_forward.graph = Restrict(graph, t.forward)

ClosureInside(F, v) ==
    BwdClosure(Restrict(graph, F), GraphVariables, VarCanPost(graph, v, F))

\* The Extended task t of the state the step started from (its discard
\* applied) is gone: it was complete, and its bottom went to a new task.
ExtendedFinished(t, after) ==
    (\A u \in TasksOf(after, "Extended") : u.var # t.var) =>
        /\ t.extended_component = ClosureInside(t.forward, t.var)
        /\ IF t.forward = t.extended_component
           THEN \A b \in TasksOf(after, "BottomBasin") : b.var # t.var
           ELSE \E b \in TasksOf(after, "BottomBasin") :
                    /\ b.var = t.var
                    /\ b.bottom = t.forward \ ClosureInside(t.forward, t.var)
                    /\ b.basin = b.bottom

ExtendedStaysInside ==
    driver = "itgr" =>
        /\ ExtendedWithinForward(itgr')
        /\ ExtendedWithinForward(ApplyDiscard(itgr))
        /\ \A t \in TasksOf(ApplyDiscard(itgr), "Extended") : ExtendedFinished(t, itgr')

C39_ExtendedStaysInside == [][ExtendedStaysInside]_vars

\* After a discard, an Extended task is under way whose forward set is not
\* all that remains and whose extended component is not yet all of the
\* forward set.
C39_Witness ==
    /\ driver = "itgr"
    /\ itgr.to_discard = {}
    /\ itgr.remaining_set # MkUnit(graph)
    /\ \E t \in TasksOf(itgr, "Extended") :
          /\ t.extended_component # {}
          /\ t.extended_component # t.forward
          /\ t.forward # itgr.remaining_set

\* An Extended task has just finished short of its forward set and handed
\* its bottom to a new task.
C39_WitnessBottom ==
    /\ driver = "itgr"
    /\ itgr.reductions # <<>>
    /\ Last(itgr.reductions).kind = "BottomBasin"
    /\ Last(itgr.reductions).basin = Last(itgr.reductions).bottom
    /\ Last(itgr.reductions).bottom # {}
    /\ TasksOf(itgr, "Extended") # {}

====
